---- MODULE Spec2Model ----
(***************************************************************************)
(* Model of estivision-mp's calibration persistence layer.                 *)
(*                                                                         *)
(* CameraCalibrator (src/src/estv/devices/camera_calibrator.py) is         *)
(* modelled per instance; every instance is driven by one thread, and the  *)
(* threads share one file system and the advisory lock of filelock.        *)
(* save and load are split at every point where another thread or process  *)
(* can observe the file system; add_chessboard_image and calibrate touch   *)
(* only the instance and are single steps.                                 *)
(***************************************************************************)
EXTENDS Integers, Sequences, FiniteSets, TLC

(***************************************************************************)
(* Bounds and value domains                                                *)
(***************************************************************************)

\* Bound: observations one calibrator accumulates before add is cut off.
MaxObs == 3

\* calibrate() refuses fewer than this many observations.
MinImages == 3

\* The CameraCalibrator instances, one owning thread each.
Calibrators == {"calA", "calB"}

\* Frames handed to add_chessboard_image: one without a board, one with.
Images == {"noboard", "board"}

\* Python's None, as a tuple so that it compares with every parameter value.
None == <<>>

\* A key that an .npz archive does not contain.
Absent == <<"absent">>

\* np.savez stores None as a pickled 0-d object array.
ObjNone == <<"object", "None">>

\* No error surfaced to the caller: <<exception type, message, detail>>.
NoErr == <<"", "", "">>

\* Return values.
RetTrue == <<"True">>
RetFalse == <<"False">>

(***************************************************************************)
(* Paths: a path is the sequence of its name and suffixes, so that         *)
(* str(filename) + ".tmp" is Append(filename, ".tmp").                     *)
(***************************************************************************)

\* The artifact path every modelled save and load is given.
FileName == <<"calib", ".npz">>

\* lock_path = str(filename) + ".lock" in save.
SaveLockPath(filename) == Append(filename, ".lock")

\* Mutant: load locks a sidecar of another name than save does.
LoadLockPath_other(filename) == Append(filename, ".lck")

\* lock_path = str(filename) + ".lock" in load.
LoadLockPath(filename) == Append(filename, ".lock")

\* Mutant: no temporary sibling, np.savez is pointed at the destination.
TmpPath_inplace(filename) == filename

\* tmp_path = str(filename) + ".tmp".
TmpPath(filename) == Append(filename, ".tmp")

\* np.savez(file, ...) with a str file name: ".npz" is appended unless the
\* name already ends with it.
SavezTarget(file) ==
    IF file[Len(file)] = ".npz" THEN file ELSE Append(file, ".npz")

(***************************************************************************)
(* File contents                                                           *)
(***************************************************************************)

\* A complete .npz archive with the given entries.
Artifact(cm, dc, re) ==
    [kind |-> "npz", camera_matrix |-> cm, dist_coeffs |-> dc, reproj_error |-> re]

\* A file np.savez has created but not finished writing.
PartialFile ==
    [kind |-> "partial", camera_matrix |-> Absent, dist_coeffs |-> Absent,
     reproj_error |-> Absent]

\* The (empty) sidecar file FileLock opens.
LockFile ==
    [kind |-> "lock", camera_matrix |-> Absent, dist_coeffs |-> Absent,
     reproj_error |-> Absent]

\* What a reader gets when the path does not exist.
NoFile ==
    [kind |-> "FileNotFoundError", camera_matrix |-> Absent, dist_coeffs |-> Absent,
     reproj_error |-> Absent]

\* The reader has not read yet.
NotRead ==
    [kind |-> "notread", camera_matrix |-> Absent, dist_coeffs |-> Absent,
     reproj_error |-> Absent]

\* Artifacts that may lie at the destination when the program starts: one
\* written by a current save, and one of an older format without reproj_error.
StoredArtifact == Artifact(<<"stored", 0>>, <<"stored", 0>>, <<"stored", 0>>)
LegacyArtifact == Artifact(<<"stored", 0>>, <<"stored", 0>>, Absent)

VARIABLES
    object_points,      \* [Calibrators -> Seq]  self.object_points
    image_points,       \* [Calibrators -> Seq]  self.image_points
    camera_matrix,      \* self._camera_matrix
    dist_coeffs,        \* self._dist_coeffs
    rvecs,              \* self._rvecs / self._tvecs (always set together)
    reproj_error,       \* self._reproj_error
    pc,                 \* position of each calibrator's thread
    exc,                \* exception in flight inside save / load
    fs,                 \* file system: existing path -> content
    held,               \* FileLock: set of <<lock path, owner>>
    returned,           \* the call that completed last, and how
    before,             \* history: the destination as a running save found it
    seen,               \* what the main window's unlocked np.load read last
    named,              \* the artifact path computed last, and from what
    spc,                \* position of each caller of the stereo routines
    stereo_params,      \* the StereoParams instance each caller holds
    arrays,             \* the caller's intrinsics arrays k1, d1, k2, d2
    stereo_fs,          \* file system: stereo artifact path -> content
    sret,               \* the stereo call that completed last, and how
    triangulator,       \* the OpenCVTriangulator: params, _p1, _p2
    tri_ret,            \* the triangulator call that completed last
    objp,               \* the chessboard geometry and the points generated
    win,                \* the CameraPreviewWindow of one camera
    run,                \* _run_stereo_calibration of each main window
    streams,            \* CameraStreamManager._streams: id -> its stream
    created,            \* every CameraStream constructed so far, in order
    queue,              \* signals of the streams posted and not yet handled
    pending_restart,    \* CameraStreamManager._pending_restart
    timers,             \* QTimer.singleShot restarts scheduled, per id
    auto_restart,       \* CameraStreamManager._auto_restart
    starter,            \* threads inside start_camera: position and locals
    mret,               \* the start_camera / stop_camera that completed last
    reported,           \* history: errors handled with auto_restart, per id
    scheduled,          \* history: restarts scheduled, per id
    estimation_active,  \* MainWindow._estimation_active
    launch_enabled,     \* MainWindow._launch_enabled
    global_est_enabled, \* MainWindow.global_est_button.isEnabled()
    preview_windows,    \* MainWindow._preview_windows: id -> its preview
    toggled,            \* history: the _toggle_camera call handled last
    cam,                \* one CameraStream thread: position in run, device
    pose                \* one preview's pose estimation and its worker

calibratorvars ==
    <<object_points, image_points, camera_matrix, dist_coeffs, rvecs,
      reproj_error, pc, exc, fs, held, returned, before, seen>>

namevars == <<named>>

stereovars == <<spc, stereo_params, arrays, stereo_fs, sret>>

trivars == <<triangulator, tri_ret>>

boardvars == <<objp>>

winvars == <<win>>

runvars == <<run>>

streamvars ==
    <<streams, created, queue, pending_restart, timers, auto_restart, starter,
      mret, reported, scheduled>>

mainvars ==
    <<estimation_active, launch_enabled, global_est_enabled, preview_windows,
      toggled>>

camvars == <<cam>>

posevars == <<pose>>

vars == <<calibratorvars, namevars, stereovars, trivars, boardvars, winvars, runvars, streamvars, mainvars, camvars, posevars>>

\* What the methods of CameraCalibrator never touch.
outside_calibrator == <<namevars, stereovars, trivars, boardvars, winvars, runvars, streamvars, mainvars, camvars, posevars>>

calvars == <<object_points, image_points, camera_matrix, dist_coeffs, rvecs,
             reproj_error>>

(***************************************************************************)
(* External routines, by what the code relies on                           *)
(***************************************************************************)

\* self._objp: the board's object points, copied into every observation.
create_object_points == <<"objp", "6x9">>

\* cv2.findChessboardCorners + cv2.cornerSubPix on one frame.
FindChessboardCorners(image) ==
    [found |-> image # "noboard", corners |-> <<"corners", image>>]

\* cv2.calibrateCamera over all accumulated pairs at once: one pose per view.
CalibrateCamera(objs, imgs) ==
    [ret   |-> <<"rms", Len(imgs)>>,
     mtx   |-> <<"solved", Len(imgs)>>,
     dist  |-> <<"solved", Len(imgs)>>,
     rvecs |-> <<"poses", Len(imgs)>>]

\* Mutant: the guard of calibrate off by one (len(...) < 2).
InsufficientImages_offbyone(objs) == Len(objs) < MinImages - 1

\* if len(self.object_points) < 3
InsufficientImages(objs) == Len(objs) < MinImages

\* Mutant: the object points are stored once, for the first observation only.
StoreObservation_objonce(objs, imgs, corners) ==
    <<IF objs = <<>> THEN Append(objs, create_object_points) ELSE objs,
      Append(imgs, corners)>>

\* Mutant: only the newest observation is kept.
StoreObservation_latest(objs, imgs, corners) ==
    <<<<create_object_points>>, <<corners>>>>

\* self.object_points.append(self._objp.copy()); self.image_points.append(corners2)
StoreObservation(objs, imgs, corners) ==
    <<Append(objs, create_object_points), Append(imgs, corners)>>

Min2(a, b) == IF a < b THEN a ELSE b

\* _calc_reprojection_error: None while anything is unset, else the RMS over
\* the zipped observations and poses (None when there is no point at all).
calc_reprojection_error(objs, imgs, rv, mtx, dist) ==
    IF rv = None \/ mtx = None \/ dist = None
    THEN None
    ELSE LET views == Min2(Min2(Len(objs), Len(imgs)), rv[2])
         IN IF views > 0 THEN <<"rms", views>> ELSE None

(***************************************************************************)
(* Errors: what save and load let the caller see for an exception raised   *)
(* inside them                                                             *)
(***************************************************************************)

\* calibrate: raise ValueError (fewer than 3 images).
InsufficientData == <<"ValueError", "at least 3 chessboard images are needed", "">>

\* save: raise ValueError (no camera matrix).
NotCalibrated == <<"ValueError", "calibration not performed", "">>

\* save: the RuntimeError raised for a lock Timeout.
SaveLockTimeout == <<"RuntimeError", "lock acquisition failed while saving", "">>

\* save: the RuntimeError raised for any other exception e, with e in its text.
SaveError(e) == <<"RuntimeError", "error while saving", e>>

\* load: the RuntimeError raised for a lock Timeout.
LoadLockTimeout == <<"RuntimeError", "lock acquisition failed while loading", "">>

\* Mutant: no `except Timeout` clause, the Timeout falls into `except Exception`.
SaveRaise_generic(e) == SaveError(e)

\* save: except Timeout / except Exception.
SaveRaise(e) == IF e = "Timeout" THEN SaveLockTimeout ELSE SaveError(e)

\* load: except Timeout; everything else propagates as raised.
LoadRaise(e) == IF e = "Timeout" THEN LoadLockTimeout ELSE <<e, "", "">>

(***************************************************************************)
(* File system and lock primitives                                         *)
(***************************************************************************)

Exists(f, path) == path \in DOMAIN f

\* np.load(str(filename)): the archive as the reader finds it at the path.
NpLoad(f, path) == IF Exists(f, path) THEN f[path] ELSE NoFile

\* Create or overwrite path with content.
WriteFile(f, path, content) ==
    [p \in DOMAIN f \cup {path} |-> IF p = path THEN content ELSE f[p]]

\* Path.unlink(missing_ok=True)
Unlink(f, path) == [p \in DOMAIN f \ {path} |-> f[p]]

\* Path(src).replace(dst): atomic rename over dst; needs src to exist.
Replace(f, src, dst) ==
    IF src = dst THEN f
    ELSE [p \in (DOMAIN f \cup {dst}) \ {src} |-> IF p = dst THEN f[src] ELSE f[p]]

\* FileLock: the lock on lockpath is free for owner when nobody else holds it.
LockFree(lockpath) == \A h \in held : h[1] # lockpath

\* The call that completed last: who, which operation, its argument, its
\* return value, the exception raised inside it and the error surfaced to the
\* caller.
Completed(c, op, arg, val, e, err) ==
    returned' = [cal |-> c, op |-> op, arg |-> arg, val |-> val, exc |-> e,
                 err |-> err]

(***************************************************************************)
(* Artifact naming: camera_preview_window._calib_file_path and             *)
(* main_window._stereo_file_path.  A str is the sequence of its            *)
(* characters; a path is the sequence of the pieces it is composed of.     *)
(***************************************************************************)
\* Longest camera id that is tried.
MaxIdLen == 2

\* Characters camera ids are made of: one of each kind the pattern names,
\* and two it does not name.
Chars == {"a", "Z", "5", ".", "_", "-", "/", " "}

\* Code points, which is what Python compares and what the ranges of a
\* character class are made of.
Ord == [ch \in Chars |->
          CASE ch = "a" -> 97 [] ch = "Z" -> 90 [] ch = "5" -> 53
            [] ch = "." -> 46 [] ch = "_" -> 95 [] ch = "-" -> 45
            [] ch = "/" -> 47 [] ch = " " -> 32]

Ids == UNION {[1..n -> Chars] : n \in 0..MaxIdLen}

\* The character class A-Za-z0-9._- of the pattern.
InClass(ch) ==
    \/ Ord[ch] \in 65..90
    \/ Ord[ch] \in 97..122
    \/ Ord[ch] \in 48..57
    \/ Ord[ch] \in {46, 95, 45}

\* Mutant: the replacement is '-' instead of '_'.
ReSub_dash(id) ==
    [i \in 1..Len(id) |-> IF InClass(id[i]) THEN id[i] ELSE "-"]

\* re.sub(r"[^A-Za-z0-9._-]", "_", id): every character outside the class is
\* replaced by '_', the others are copied.
ReSub(id) ==
    [i \in 1..Len(id) |-> IF InClass(id[i]) THEN id[i] ELSE "_"]

\* Python's s < t on str: lexicographic by code point, a proper prefix first.
RECURSIVE StrLess(_, _)
StrLess(s, t) ==
    IF Len(t) = 0 THEN FALSE
    ELSE IF Len(s) = 0 THEN TRUE
    ELSE IF Ord[Head(s)] # Ord[Head(t)] THEN Ord[Head(s)] < Ord[Head(t)]
    ELSE StrLess(Tail(s), Tail(t))

\* _get_data_dir() / name
DataDir == <<"data", "/">>

\* _calib_file_path(device_id)
calib_file_path(device_id) ==
    LET safe_id == ReSub(device_id) IN
    DataDir \o <<"calib_">> \o safe_id \o <<".npz">>

\* Mutant: the two sanitized ids are not put in order.
stereo_file_path_noswap(cam1_id, cam2_id) ==
    LET safe1 == ReSub(cam1_id)
        safe2 == ReSub(cam2_id)
    IN  DataDir \o <<"stereo_">> \o safe1 \o <<"_">> \o safe2 \o <<".npz">>

\* _stereo_file_path(cam1_id, cam2_id)
stereo_file_path(cam1_id, cam2_id) ==
    LET safe1 == ReSub(cam1_id)
        safe2 == ReSub(cam2_id)
        swap  == StrLess(safe2, safe1)          \* if safe1 > safe2
        lo    == IF swap THEN safe2 ELSE safe1
        hi    == IF swap THEN safe1 ELSE safe2
    IN  DataDir \o <<"stereo_">> \o lo \o <<"_">> \o hi \o <<".npz">>

\* No path function has been called yet on the ids a and b.
NotNamed(a, b) == [fn |-> "", a |-> a, b |-> b, safe |-> <<>>, path |-> <<>>]

(***************************************************************************)
(* Stereo calibration and its artifact: stereo_calibrator.py               *)
(***************************************************************************)
\* Most frames of corner pairs handed to stereo_calibrate.
MaxFrames == 2

\* Callers of the stereo routines: two main windows (processes) that share
\* the data directory.
Procs == {"winA", "winB"}

\* The intrinsics arrays a caller passes as k1, d1, k2, d2.
Refs == {"k1", "d1", "k2", "d2"}

\* img_points1 / img_points2: a list of per-frame corner arrays.
FrameLists == UNION {[1..n -> {"corners"}] : n \in 0..MaxFrames}

\* Rotations the stereo solve may return (rows of R).
Rotations ==
    { <<<<1, 0, 0>>, <<0, 1, 0>>, <<0, 0, 1>>>>,        \* parallel cameras
      <<<<-1, 0, 0>>, <<0, 1, 0>>, <<0, 0, -1>>>>,      \* facing each other
      <<<<1, 0, 0>>, <<0, 0, -1>>, <<0, 1, 0>>>> }      \* quarter turn about x

\* Translations the stereo solve may return.
Translations == { <<-1, 0, 0>>, <<0, 0, 1>>, <<0, 0, -1>> }

\* The dataclass StereoParams; the rectification outputs and the metadata
\* are carried as one field.
StereoParams(k1, d1, k2, d2, r, t, rest) ==
    [k1 |-> k1, d1 |-> d1, k2 |-> k2, d2 |-> d2, r |-> r, t |-> t,
     rest |-> rest]

\* No StereoParams instance.
NoParams == StereoParams(None, None, None, None, None, None, None)

\* The path of the stereo artifact of the camera pair in use.
StereoFile == stereo_file_path(<<"a">>, <<"Z">>)

\* A complete stereo archive, one being written, and a missing one.
StereoArtifact(params) == [kind |-> "npz", params |-> params]
StereoPartial == [kind |-> "partial", params |-> NoParams]
StereoMissing == [kind |-> "FileNotFoundError", params |-> NoParams]
StereoNotRead == [kind |-> "", params |-> NoParams]

\* No stereo call has completed yet.
NoStereoCall ==
    [proc |-> "", op |-> "", img_points1 |-> <<>>, img_points2 |-> <<>>,
     solved |-> FALSE, val |-> NoParams, exc |-> "", read |-> StereoNotRead]

\* The arrays of the callers before any call.
CallerArrays == [p \in Procs |-> [ref \in Refs |-> <<"intrinsics", ref>>]]

(***************************************************************************)
(* Triangulation: estimators/triangulation.py                              *)
(***************************************************************************)
\* Most point pairs handed to triangulate.
MaxPts == 2

\* Pixel positions of a point in an image, one number standing for the pair
\* of coordinates.
PixelVals == {0, 1, 2}

\* pts1_px / pts2_px: arrays of shape (N, 2).
PixelArrays == UNION {[1..n -> PixelVals] : n \in 0..MaxPts}

\* No triangulator has been constructed.
NoTriangulator == [params |-> "", p1 |-> None, p2 |-> None]

\* Nothing has been called on the triangulator, which will get pts1, pts2.
NoTriCall(pts1, pts2) ==
    [op |-> "", pts1_px |-> pts1, pts2_px |-> pts2, x |-> <<>>, mask |-> <<>>,
     rmse |-> None, exc |-> ""]

(***************************************************************************)
(* Chessboard object points                                                *)
(***************************************************************************)
\* Inner corners per side of the boards generated.
MaxBoard == 4

\* Edge lengths of a square, in units in which the products are exact.
SquareSizes == {1, 2, 5}

\* np.mgrid[0:n0, 0:n1]: two arrays of shape (n0, n1), the first holding
\* the index along axis 0 and the second the index along axis 1.
MGrid(n0, n1) ==
    <<[i \in 0..(n0 - 1) |-> [j \in 0..(n1 - 1) |-> i]],
      [i \in 0..(n0 - 1) |-> [j \in 0..(n1 - 1) |-> j]]>>

\* ndarray.T of an array of shape (2, n0, n1): the axes reversed, so shape
\* (n1, n0, 2).
Transposed(g, n0, n1) ==
    [j \in 0..(n1 - 1) |-> [i \in 0..(n0 - 1) |-> <<g[1][i][j], g[2][i][j]>>]]

\* .reshape(-1, 2) of an array of shape (n1, n0, 2): its rows in row-major
\* order.
Reshaped(t, n0, n1) ==
    [k \in 1..(n1 * n0) |-> t[(k - 1) \div n0][(k - 1) % n0]]

\* objp = np.zeros((n, 3)); objp[:, :2] = grid; objp *= size.
ScaledPoints(grid, n, size) ==
    [k \in 1..n |-> <<grid[k][1] * size, grid[k][2] * size, 0 * size>>]

\* CameraCalibrator._create_object_points, from self.board_size and
\* self.square_size.
CreateObjectPoints(board_size, square_size) ==
    ScaledPoints(Reshaped(Transposed(MGrid(board_size[1], board_size[2]),
                                     board_size[1], board_size[2]),
                          board_size[1], board_size[2]),
                 board_size[2] * board_size[1], square_size)

make_object_points_rowsfirst(board_size, square_size_m) ==
    LET cols == board_size[1]
        rows == board_size[2]
    IN  ScaledPoints(Reshaped(Transposed(MGrid(rows, cols), rows, cols),
                              rows, cols),
                     rows * cols, square_size_m)

\* _make_object_points of the stereo calibrator.
make_object_points(board_size, square_size_m) ==
    LET cols == board_size[1]
        rows == board_size[2]
    IN  ScaledPoints(Reshaped(Transposed(MGrid(cols, rows), cols, rows),
                              cols, rows),
                     rows * cols, square_size_m)

\* No points have been generated for the board of this geometry.
NoBoard(board_size, square_size) ==
    [board_size |-> board_size, square_size |-> square_size,
     created |-> None, made |-> None]


(***************************************************************************)
(* CameraPreviewWindow: the state of the window of one camera              *)
(***************************************************************************)
\* The number of observations at which a calibration run of the window
\* calibrates: CALIB_IMAGES_REQUIRED, which is 20 in the source and which
\* the handlers only compare with len(self.calibrator.image_points).
ImagesRequired == 3

\* Frames the camera delivers to the window: one without a board and two
\* different ones with a board.
Frames == {"noboard", "board", "board2"}

\* self._last_image before the first frame has arrived.
NoImage == ""

\* No preview window exists for the camera: the fields as __init__ sets
\* them, and the window not shown.
NoWindow ==
    [open |-> FALSE,                    \* constructed and not closed
     calibrating |-> FALSE,             \* self.calibrating
     calibration_done |-> FALSE,        \* self.calibration_done
     pose_estimation_enabled |-> FALSE, \* self._pose_estimation_enabled
     force_close |-> FALSE,             \* self._force_close
     calib_button_enabled |-> TRUE,     \* self.calib_button.isEnabled()
     last_image |-> NoImage,            \* self._last_image
     stream_running |-> FALSE,          \* the manager runs the camera's stream
     registered |-> FALSE,              \* MainWindow._preview_windows has it
     on_closed_calls |-> 0,             \* calls of self._on_closed
     event |-> "",                      \* what closeEvent did with the event
     reload |-> "none"]                 \* how the last reload of the artifact ended

(***************************************************************************)
(* MainWindow._run_stereo_calibration: the locals of the handler           *)
(***************************************************************************)
\* latest_frame of a preview window: None, a frame without the board, a
\* frame with it.
LatestFrames == {"", "noboard", "board"}

\* The handler has not run: img1 and img2, whether stereo_calibrate was
\* called, its result params, and how the handler ended.
NoRun ==
    [img1 |-> "", img2 |-> "", called |-> FALSE, params |-> NoParams,
     ended |-> ""]

(***************************************************************************)
(* CameraStreamManager and its CameraStream threads                        *)
(***************************************************************************)
\* CameraStream objects constructed in a run of the model.
MaxStarts == 3

\* Camera ids device_index_lookup knows, and one it returns None for.
CameraIds == {"0", "1", "2"}
UnknownId == "9"

\* Threads that call start_camera.
Callers == {"t1", "t2"}

\* camera_id not in self._streams; otherwise the position of the stream in
\* `created`.
NoStream == 0

\* A thread that is not inside start_camera.
NotStarting == [pc |-> "idle", id |-> "", free |-> FALSE]

\* No call of the manager has completed.
NoManagerCall ==
    [op |-> "", id |-> "", warning |-> "", stream |-> NoStream,
     raced |-> FALSE]

(***************************************************************************)
(* MainWindow: the cameras of its table and their preview windows          *)
(***************************************************************************)
\* The cameras listed in the main window's table.
TableIds == {"0", "1"}

\* device_id not in self._preview_windows; otherwise the fields of the
\* CameraPreviewWindow stored for the id that the main window's handlers
\* read or set.
NoPreview ==
    [open |-> FALSE,
     calibrating |-> FALSE,
     calibration_done |-> FALSE,
     pose_estimation_enabled |-> FALSE,
     force_close |-> FALSE,
     calib_button_enabled |-> TRUE]

\* _toggle_camera has not been called.
NoToggle == [id |-> "", checked |-> FALSE, ignored |-> FALSE]

(***************************************************************************)
(* CameraStream: one thread and the capture device it opens                *)
(***************************************************************************)
\* Frames the device delivers in a run of the model.
MaxReads == 3

\* A CameraStream after __init__, its thread not started: no VideoCapture
\* yet, self._cap None, no interruption requested.
NoThread ==
    [pc |-> "created",        \* position of the thread in run()
     device |-> "none",       \* the cv2.VideoCapture of run(), local `cap`
     cap |-> FALSE,           \* self._cap is not None
     interruption |-> FALSE,  \* isInterruptionRequested()
     reads |-> 0,             \* cap.read() calls made
     emitted |-> 0,           \* frames emitted with frame_ready
     late |-> 0,              \* of them, frames read after stop() was called
     errors |-> 0,            \* error signals emitted
     pending_exposure |-> FALSE, \* self._pending_exposure is not None
     exposure |-> FALSE,      \* CAP_PROP_EXPOSURE has been set on the device
     exit |-> ""]             \* the way run() was left

(***************************************************************************)
(* CameraPreviewWindow and its PoseEstimationWorker                        *)
(***************************************************************************)
\* Frames the stream delivers to the preview in a run of the model.
MaxPoseFrames == 5

\* A preview after __init__: pose estimation off, no worker, no landmarks.
\* Frames are numbered from 1, and a result carries the number of its frame.
NoPose ==
    [enabled |-> FALSE,       \* self._pose_estimation_enabled
     worker |-> FALSE,        \* self._pose_worker is not None
     landmarks |-> 0,         \* self._last_landmarks: 0 for None
     busy |-> FALSE,          \* self._inference_busy
     frames |-> 0,            \* frames _on_frame_ready has received
     inbox |-> <<>>,          \* frames posted to the worker's thread
     processing |-> 0,        \* the frame process_frame is working on, or 0
     results |-> <<>>,        \* the worker's results posted to the GUI thread
     stale |-> <<>>]          \* results of a worker that is no more, posted
                              \* to the GUI thread before the disconnect

(***************************************************************************)
(* Components at rest                                                      *)
(***************************************************************************)
NamesAtRest == named = NotNamed(<<>>, <<>>)

StereoAtRest ==
    /\ spc = [p \in Procs |-> "idle"]
    /\ stereo_params = [p \in Procs |-> NoParams]
    /\ arrays = CallerArrays
    /\ stereo_fs = [p \in {} |-> StereoMissing]
    /\ sret = NoStereoCall

TriangulatorAtRest ==
    /\ triangulator = NoTriangulator
    /\ tri_ret = NoTriCall(<<>>, <<>>)

BoardAtRest == objp = NoBoard(<<1, 1>>, 1)

WindowAtRest == win = NoWindow

\* MainWindow.__init__
MainAtRest ==
    /\ estimation_active = FALSE
    /\ launch_enabled = TRUE
    /\ global_est_enabled = FALSE
    /\ preview_windows = [c \in TableIds |-> NoPreview]
    /\ toggled = NoToggle

CameraAtRest == cam = NoThread

PoseAtRest == pose = NoPose

WorkflowAtRest == run = [p \in Procs |-> NoRun]

\* CameraStreamManager.__init__ with auto_restart as given.
InitManager(auto) ==
    /\ streams = [c \in CameraIds |-> NoStream]
    /\ created = <<>>
    /\ queue = <<>>
    /\ pending_restart = {}
    /\ timers = [c \in CameraIds |-> 0]
    /\ auto_restart = auto
    /\ starter = [t \in Callers |-> NotStarting]
    /\ mret = NoManagerCall
    /\ reported = [c \in CameraIds |-> 0]
    /\ scheduled = [c \in CameraIds |-> 0]

StreamsAtRest == InitManager(FALSE)

(***************************************************************************)
(* Initial state: CameraCalibrator.__init__ for every instance; the        *)
(* destination holds no artifact or one stored by an earlier run.          *)
(***************************************************************************)
StartFiles == {NoFile, StoredArtifact, LegacyArtifact}

InitCalibrators(init) ==
    /\ object_points = [c \in Calibrators |-> <<>>]
    /\ image_points  = [c \in Calibrators |-> <<>>]
    /\ camera_matrix = [c \in Calibrators |-> None]
    /\ dist_coeffs   = [c \in Calibrators |-> None]
    /\ rvecs         = [c \in Calibrators |-> None]
    /\ reproj_error  = [c \in Calibrators |-> None]
    /\ pc   = [c \in Calibrators |-> "idle"]
    /\ exc  = [c \in Calibrators |-> ""]
    /\ fs = [p \in (IF init = NoFile THEN {} ELSE {FileName}) |-> init]
    /\ held = {}
    /\ returned = [cal |-> "", op |-> "", arg |-> None, val |-> None, exc |-> "",
                   err |-> NoErr]
    /\ before = [c \in Calibrators |-> NotRead]
    /\ seen = NotRead

Init ==
    /\ \E init \in StartFiles : InitCalibrators(init)
    /\ PoseAtRest
    /\ CameraAtRest
    /\ MainAtRest
    /\ StreamsAtRest
    /\ WorkflowAtRest
    /\ WindowAtRest
    /\ BoardAtRest
    /\ NamesAtRest
    /\ StereoAtRest
    /\ TriangulatorAtRest

(***************************************************************************)
(* CameraCalibrator.add_chessboard_image                                   *)
(***************************************************************************)
add_chessboard_image(c) ==
    /\ pc[c] = "idle"
    /\ Len(object_points[c]) < MaxObs
    /\ \E image \in Images :
         LET det == FindChessboardCorners(image) IN
         /\ IF det.found
            THEN LET st == StoreObservation(object_points[c], image_points[c],
                                            det.corners) IN
                 /\ object_points' = [object_points EXCEPT ![c] = st[1]]
                 /\ image_points'  = [image_points EXCEPT ![c] = st[2]]
            ELSE UNCHANGED <<object_points, image_points>>
         /\ Completed(c, "add_chessboard_image", <<image>>,
                      IF det.found THEN RetTrue ELSE RetFalse, "", NoErr)
    /\ UNCHANGED <<outside_calibrator, camera_matrix, dist_coeffs, rvecs, reproj_error, pc, exc, fs,
                   held, before, seen>>

(***************************************************************************)
(* CameraCalibrator.calibrate                                              *)
(***************************************************************************)
calibrate(c) ==
    /\ pc[c] = "idle"
    /\ IF InsufficientImages(object_points[c])
       THEN /\ Completed(c, "calibrate", None, None, "ValueError", InsufficientData)
            /\ UNCHANGED <<camera_matrix, dist_coeffs, rvecs, reproj_error>>
       ELSE LET sol == CalibrateCamera(object_points[c], image_points[c]) IN
            \/ /\ camera_matrix' = [camera_matrix EXCEPT ![c] = sol.mtx]
               /\ dist_coeffs'   = [dist_coeffs EXCEPT ![c] = sol.dist]
               /\ rvecs'         = [rvecs EXCEPT ![c] = sol.rvecs]
               /\ reproj_error'  = [reproj_error EXCEPT ![c] =
                      calc_reprojection_error(object_points[c], image_points[c],
                                              sol.rvecs, sol.mtx, sol.dist)]
               /\ Completed(c, "calibrate", None, sol.ret, "", NoErr)
            \* cv2.calibrateCamera raises: nothing has been assigned yet
            \/ /\ Completed(c, "calibrate", None, None, "cv2.error",
                             <<"cv2.error", "", "">>)
               /\ UNCHANGED <<camera_matrix, dist_coeffs, rvecs, reproj_error>>
    /\ UNCHANGED <<outside_calibrator, object_points, image_points, pc, exc, fs, held, before, seen>>

(***************************************************************************)
(* CameraCalibrator.save, step by step                                     *)
(***************************************************************************)

\* What np.savez puts into the archive: None becomes a pickled object entry.
SavedContent(c) ==
    Artifact(camera_matrix[c], dist_coeffs[c],
             IF reproj_error[c] = None THEN ObjNone ELSE reproj_error[c])

\* Mutant: save without the guard on the camera matrix.
save_call_noguard(c) ==
    /\ pc[c] = "idle"
    /\ pc' = [pc EXCEPT ![c] = "save_lock"]
    /\ before' = [before EXCEPT ![c] = NpLoad(fs, FileName)]
    /\ UNCHANGED <<outside_calibrator, calvars, exc, fs, held, seen, returned>>

\* save(): the guard on the camera matrix, then FileLock(lock_path, timeout).
save_call(c) ==
    /\ pc[c] = "idle"
    /\ IF camera_matrix[c] = None
       THEN /\ Completed(c, "save", FileName, None, "ValueError", NotCalibrated)
            /\ UNCHANGED <<pc, before>>
       ELSE /\ pc' = [pc EXCEPT ![c] = "save_lock"]
            /\ before' = [before EXCEPT ![c] = NpLoad(fs, FileName)]
            /\ UNCHANGED returned
    /\ UNCHANGED <<outside_calibrator, calvars, exc, fs, held, seen>>

\* with lock: the lock is free, FileLock opens the sidecar file and locks it.
save_acquire(c) ==
    /\ pc[c] = "save_lock"
    /\ LockFree(SaveLockPath(FileName))
    /\ held' = held \cup {<<SaveLockPath(FileName), c>>}
    /\ fs' = WriteFile(fs, SaveLockPath(FileName), LockFile)
    /\ pc' = [pc EXCEPT ![c] = "save_savez"]
    /\ UNCHANGED <<outside_calibrator, calvars, exc, returned, before, seen>>

\* with lock: the lock stayed taken for `timeout` seconds; filelock raises
\* Timeout, which save turns into its RuntimeError.
save_timeout(c) ==
    /\ pc[c] = "save_lock"
    /\ ~LockFree(SaveLockPath(FileName))
    /\ pc' = [pc EXCEPT ![c] = "idle"]
    /\ Completed(c, "save", FileName, None, "Timeout", SaveRaise("Timeout"))
    /\ before' = [before EXCEPT ![c] = NotRead]
    /\ UNCHANGED <<outside_calibrator, calvars, exc, fs, held, seen>>

\* np.savez(tmp_path, ...) opens its target for writing, or fails to.
save_savez_open(c) ==
    /\ pc[c] = "save_savez"
    /\ \/ /\ fs' = WriteFile(fs, SavezTarget(TmpPath(FileName)), PartialFile)
          /\ pc' = [pc EXCEPT ![c] = "save_savez_write"]
          /\ UNCHANGED exc
       \/ /\ exc' = [exc EXCEPT ![c] = "OSError"]
          /\ pc' = [pc EXCEPT ![c] = "save_finally"]
          /\ UNCHANGED fs
    /\ UNCHANGED <<outside_calibrator, calvars, held, returned, before, seen>>

\* np.savez writes the arrays and closes the archive, or fails half-way.
save_savez_write(c) ==
    /\ pc[c] = "save_savez_write"
    /\ \/ /\ fs' = WriteFile(fs, SavezTarget(TmpPath(FileName)), SavedContent(c))
          /\ pc' = [pc EXCEPT ![c] = "save_replace"]
          /\ UNCHANGED exc
       \/ /\ exc' = [exc EXCEPT ![c] = "OSError"]
          /\ pc' = [pc EXCEPT ![c] = "save_finally"]
          /\ UNCHANGED fs
    /\ UNCHANGED <<outside_calibrator, calvars, held, returned, before, seen>>

\* Path(tmp_path).replace(filename)
save_replace(c) ==
    /\ pc[c] = "save_replace"
    /\ IF Exists(fs, TmpPath(FileName))
       THEN /\ fs' = Replace(fs, TmpPath(FileName), FileName)
            /\ UNCHANGED exc
       ELSE /\ exc' = [exc EXCEPT ![c] = "FileNotFoundError"]
            /\ UNCHANGED fs
    /\ pc' = [pc EXCEPT ![c] = "save_finally"]
    /\ UNCHANGED <<outside_calibrator, calvars, held, returned, before, seen>>

\* Mutant: the cleanup removes the destination when the body has failed.
save_finally_dest(c) ==
    /\ pc[c] = "save_finally"
    /\ fs' = IF exc[c] # "" /\ Exists(fs, FileName) THEN Unlink(fs, FileName)
             ELSE fs
    /\ pc' = [pc EXCEPT ![c] = "save_release"]
    /\ UNCHANGED <<outside_calibrator, calvars, exc, held, returned, before, seen>>

\* finally: if Path(tmp_path).exists(): Path(tmp_path).unlink(missing_ok=True)
save_finally(c) ==
    /\ pc[c] = "save_finally"
    /\ fs' = IF Exists(fs, TmpPath(FileName)) THEN Unlink(fs, TmpPath(FileName))
             ELSE fs
    /\ pc' = [pc EXCEPT ![c] = "save_release"]
    /\ UNCHANGED <<outside_calibrator, calvars, exc, held, returned, before, seen>>

\* Leaving `with lock` releases it; then the except clauses decide what the
\* caller sees.
save_release(c) ==
    /\ pc[c] = "save_release"
    /\ held' = held \ {<<SaveLockPath(FileName), c>>}
    /\ pc' = [pc EXCEPT ![c] = "idle"]
    /\ Completed(c, "save", FileName, None, exc[c],
                 IF exc[c] = "" THEN NoErr ELSE SaveRaise(exc[c]))
    /\ exc' = [exc EXCEPT ![c] = ""]
    /\ before' = [before EXCEPT ![c] = NotRead]
    /\ UNCHANGED <<outside_calibrator, calvars, fs, seen>>

(***************************************************************************)
(* CameraCalibrator.load, step by step                                     *)
(***************************************************************************)

load_call(c) ==
    /\ pc[c] = "idle"
    /\ pc' = [pc EXCEPT ![c] = "load_lock"]
    /\ UNCHANGED <<outside_calibrator, calvars, exc, fs, held, returned, before, seen>>

load_acquire(c) ==
    /\ pc[c] = "load_lock"
    /\ LockFree(LoadLockPath(FileName))
    /\ held' = held \cup {<<LoadLockPath(FileName), c>>}
    /\ fs' = WriteFile(fs, LoadLockPath(FileName), LockFile)
    /\ pc' = [pc EXCEPT ![c] = "load_read"]
    /\ UNCHANGED <<outside_calibrator, calvars, exc, returned, before, seen>>

load_timeout(c) ==
    /\ pc[c] = "load_lock"
    /\ ~LockFree(LoadLockPath(FileName))
    /\ pc' = [pc EXCEPT ![c] = "idle"]
    /\ Completed(c, "load", FileName, None, "Timeout", LoadRaise("Timeout"))
    /\ UNCHANGED <<outside_calibrator, calvars, exc, fs, held, before, seen>>

\* Mutant: a load that cannot read the archive resets the instance.
LoadBody_reset(data, cm, dc, re) ==
    IF data.kind # "npz" THEN <<None, None, None, data.kind>>
    ELSE <<data.camera_matrix, data.dist_coeffs, None, "">>

\* The three assignments of load in program order, each raising at the
\* first entry it cannot read: <<camera_matrix, dist_coeffs, reproj_error,
\* exception>> after the body.
LoadBody(data, cm, dc, re) ==
    IF data.kind = "FileNotFoundError" THEN <<cm, dc, re, "FileNotFoundError">>
    ELSE IF data.kind # "npz" THEN <<cm, dc, re, "BadZipFile">>
    ELSE IF data.camera_matrix = Absent THEN <<cm, dc, re, "KeyError">>
    ELSE IF data.dist_coeffs = Absent
         THEN <<data.camera_matrix, dc, re, "KeyError">>
    ELSE IF data.reproj_error = Absent
         THEN <<data.camera_matrix, data.dist_coeffs, None, "">>
    ELSE IF data.reproj_error = ObjNone
         THEN <<data.camera_matrix, data.dist_coeffs, re, "ValueError">>
    ELSE <<data.camera_matrix, data.dist_coeffs, data.reproj_error, "">>

\* data = np.load(...) and the assignments, under the lock.
load_read(c) ==
    /\ pc[c] = "load_read"
    /\ LET out == LoadBody(NpLoad(fs, FileName), camera_matrix[c], dist_coeffs[c],
                           reproj_error[c]) IN
       /\ camera_matrix' = [camera_matrix EXCEPT ![c] = out[1]]
       /\ dist_coeffs'   = [dist_coeffs EXCEPT ![c] = out[2]]
       /\ reproj_error'  = [reproj_error EXCEPT ![c] = out[3]]
       /\ exc'           = [exc EXCEPT ![c] = out[4]]
    /\ pc' = [pc EXCEPT ![c] = "load_release"]
    /\ UNCHANGED <<outside_calibrator, object_points, image_points, rvecs, fs, held, returned, before, seen>>

load_release(c) ==
    /\ pc[c] = "load_release"
    /\ held' = held \ {<<LoadLockPath(FileName), c>>}
    /\ pc' = [pc EXCEPT ![c] = "idle"]
    /\ Completed(c, "load", FileName, None, exc[c],
                 IF exc[c] = "" THEN NoErr ELSE LoadRaise(exc[c]))
    /\ exc' = [exc EXCEPT ![c] = ""]
    /\ UNCHANGED <<outside_calibrator, calvars, fs, before, seen>>

(***************************************************************************)
(* MainWindow._run_stereo_calibration reads the intrinsics artifact with a *)
(* bare np.load, without the lock.                                         *)
(***************************************************************************)
run_stereo_calibration_load ==
    /\ seen' = NpLoad(fs, FileName)
    /\ seen' # seen
    /\ UNCHANGED <<outside_calibrator, calvars, pc, exc, fs, held, returned, before>>

Next ==
    \/ \E c \in Calibrators :
         \/ add_chessboard_image(c)
         \/ calibrate(c)
         \/ save_call(c)
         \/ save_acquire(c)
         \/ save_timeout(c)
         \/ save_savez_open(c)
         \/ save_savez_write(c)
         \/ save_replace(c)
         \/ save_finally(c)
         \/ save_release(c)
         \/ load_call(c)
         \/ load_acquire(c)
         \/ load_timeout(c)
         \/ load_read(c)
         \/ load_release(c)
    \/ run_stereo_calibration_load

Spec == Init /\ [][Next]_vars

(***************************************************************************)
(* Artifact naming: the two path functions applied to drawn camera ids     *)
(***************************************************************************)
outside_names == <<calibratorvars, stereovars, trivars, boardvars, winvars, runvars, streamvars, mainvars, camvars, posevars>>

\* _calib_file_path(named.a)
calib_file_path_call ==
    /\ named.fn = ""
    /\ named' = [named EXCEPT !.fn = "calib",
                              !.safe = ReSub(named.a),
                              !.path = calib_file_path(named.a)]
    /\ UNCHANGED outside_names

\* _stereo_file_path(named.a, named.b)
stereo_file_path_call ==
    /\ named.fn = ""
    /\ named' = [named EXCEPT !.fn = "stereo",
                              !.path = stereo_file_path(named.a, named.b)]
    /\ UNCHANGED outside_names

InitNames ==
    /\ InitCalibrators(NoFile)
    /\ PoseAtRest
    /\ CameraAtRest
    /\ MainAtRest
    /\ StreamsAtRest
    /\ WorkflowAtRest
    /\ WindowAtRest
    /\ BoardAtRest
    /\ \E a \in Ids, b \in Ids : named = NotNamed(a, b)
    /\ StereoAtRest
    /\ TriangulatorAtRest

NextNames ==
    \/ calib_file_path_call
    \/ stereo_file_path_call

SpecNames == InitNames /\ [][NextNames]_vars

(***************************************************************************)
(* stereo_calibrator.py: stereo_calibrate, stereo_calibrate_and_save,      *)
(* StereoParams.save and StereoParams.load, called by two processes        *)
(***************************************************************************)
outside_stereo == <<calibratorvars, namevars, trivars, boardvars, winvars, runvars, streamvars, mainvars, camvars, posevars>>

\* (R, T) pairs cv2.stereoCalibrate returns here.
Solutions ==
    { <<<<<<1, 0, 0>>, <<0, 1, 0>>, <<0, 0, 1>>>>, <<-1, 0, 0>>>>,
      <<<<<<-1, 0, 0>>, <<0, 1, 0>>, <<0, 0, -1>>>>, <<0, 0, 1>>>> }

\* Mutant: the caller's arrays themselves are handed to the solver.
SolverArgs_nocopy == [ref \in Refs |-> <<"caller", ref>>]

\* cameraMatrix1=k1.copy(), distCoeffs1=d1.copy(), cameraMatrix2=k2.copy(),
\* distCoeffs2=d2.copy(): what the solver gets for each array.
SolverArgs == [ref \in Refs |-> <<"copy", ref>>]

\* The matrices are in/out arguments of cv2.stereoCalibrate: it may write the
\* arrays it was handed.  What the caller's arrays can be after the solve.
SolverWrites(arr, args) ==
    { [ref \in Refs |->
         IF args[ref][1] = "caller" /\ wrote THEN <<"written", ref>>
         ELSE arr[ref]] : wrote \in BOOLEAN }

\* Mutant: an empty list of frames passes the second assertion.
FramesRejected_offbyone(ip1, ip2) == Len(ip1) # Len(ip2) \/ Len(ip1) < 0

\* assert len(img_points1) == len(img_points2); assert len(img_points1) >= 1
FramesRejected(ip1, ip2) == Len(ip1) # Len(ip2) \/ Len(ip1) < 1

\* What stereo_calibrate can end with: the assertion error before the solve,
\* a cv2.error out of the solve, or the StereoParams built from the outputs
\* of cv2.stereoCalibrate and cv2.stereoRectify.
StereoCalibrateOutcomes(ip1, ip2) ==
    IF FramesRejected(ip1, ip2)
    THEN {[solved |-> FALSE, val |-> NoParams, exc |-> "AssertionError"]}
    ELSE {[solved |-> TRUE, val |-> NoParams, exc |-> "cv2.error"]}
         \cup
         {[solved |-> TRUE,
           val |-> StereoParams(<<"out", "k1">>, <<"out", "d1">>,
                                <<"out", "k2">>, <<"out", "d2">>,
                                s[1], s[2], <<"rectified", Len(ip1)>>),
           exc |-> ""] : s \in Solutions}

StereoCompleted(p, op, ip1, ip2, out, read) ==
    sret' = [proc |-> p, op |-> op, img_points1 |-> ip1, img_points2 |-> ip2,
             solved |-> out.solved, val |-> out.val, exc |-> out.exc,
             read |-> read]

\* The body of stereo_calibrate for the caller p.
StereoCalibrateBody(p, op, ip1, ip2, out) ==
    /\ \E after \in (IF out.solved THEN SolverWrites(arrays[p], SolverArgs)
                      ELSE {arrays[p]}) :
          arrays' = [arrays EXCEPT ![p] = after]
    /\ stereo_params' = [stereo_params EXCEPT ![p] =
                            IF out.exc = "" THEN out.val ELSE @]
    /\ StereoCompleted(p, op, ip1, ip2, out, StereoNotRead)

\* stereo_calibrate(img_points1, img_points2, ...)
stereo_calibrate(p) ==
    /\ spc[p] = "idle"
    /\ \E ip1 \in FrameLists, ip2 \in FrameLists :
         \E out \in StereoCalibrateOutcomes(ip1, ip2) :
            StereoCalibrateBody(p, "stereo_calibrate", ip1, ip2, out)
    /\ UNCHANGED <<spc, stereo_fs, outside_stereo>>

\* stereo_calibrate_and_save(...): params = stereo_calibrate(...); an
\* exception leaves the function, otherwise params.save(save_path) follows.
stereo_calibrate_and_save(p) ==
    /\ spc[p] = "idle"
    /\ \E ip1 \in FrameLists, ip2 \in FrameLists :
         \E out \in StereoCalibrateOutcomes(ip1, ip2) :
            /\ StereoCalibrateBody(p, "stereo_calibrate_and_save", ip1, ip2,
                                   out)
            /\ spc' = [spc EXCEPT ![p] =
                          IF out.exc = "" THEN "save_open" ELSE "idle"]
    /\ UNCHANGED <<stereo_fs, outside_stereo>>

\* StereoParams.save(path), called on the instance p holds:
\* path.parent.mkdir(parents=True, exist_ok=True)
params_save_call(p) ==
    /\ spc[p] = "idle"
    /\ stereo_params[p] # NoParams
    /\ spc' = [spc EXCEPT ![p] = "save_open"]
    /\ UNCHANGED <<stereo_params, arrays, stereo_fs, sret, outside_stereo>>

\* np.savez_compressed(str(path), ...) opens the archive at the path itself
\* for writing; until it is closed the file is incomplete.
params_save_open(p) ==
    /\ spc[p] = "save_open"
    /\ stereo_fs' = WriteFile(stereo_fs, SavezTarget(StereoFile), StereoPartial)
    /\ spc' = [spc EXCEPT ![p] = "save_write"]
    /\ UNCHANGED <<stereo_params, arrays, sret, outside_stereo>>

\* np.savez_compressed writes the arrays and closes the archive.
params_save_write(p) ==
    /\ spc[p] = "save_write"
    /\ stereo_fs' = WriteFile(stereo_fs, SavezTarget(StereoFile),
                              StereoArtifact(stereo_params[p]))
    /\ spc' = [spc EXCEPT ![p] = "idle"]
    /\ StereoCompleted(p, "save", <<>>, <<>>,
                       [solved |-> FALSE, val |-> NoParams, exc |-> ""],
                       StereoNotRead)
    /\ UNCHANGED <<stereo_params, arrays, outside_stereo>>

\* np.load(str(path), allow_pickle=True) and the reads of its members.
StereoRead(f, path) == IF path \in DOMAIN f THEN f[path] ELSE StereoMissing

\* What StereoParams.load ends with on the archive data.
StereoLoadOutcome(data) ==
    IF data.kind = "npz"
    THEN [solved |-> FALSE, val |-> data.params, exc |-> ""]
    ELSE [solved |-> FALSE, val |-> NoParams,
          exc |-> IF data.kind = "partial" THEN "BadZipFile" ELSE data.kind]

\* StereoParams.load(path)
params_load(p) ==
    /\ spc[p] = "idle"
    /\ LET data == StereoRead(stereo_fs, StereoFile)
           out  == StereoLoadOutcome(data)
       IN  /\ stereo_params' = [stereo_params EXCEPT ![p] =
                                   IF out.exc = "" THEN out.val ELSE @]
           /\ StereoCompleted(p, "load", <<>>, <<>>, out, data)
    /\ UNCHANGED <<spc, arrays, stereo_fs, outside_stereo>>

\* MainWindow._update_stereo_button_state with two cameras ready:
\* if path.exists(): try: self._stereo_params = StereoParams.load(path)
\*                   except Exception: self._stereo_params = None
\* else: self._stereo_params = None
\* What it reads and what the load ends with.
StereoReload(f) ==
    LET data == IF StereoFile \in DOMAIN f
                THEN StereoRead(f, StereoFile) ELSE StereoNotRead
    IN  [data |-> data,
         out  |-> IF data = StereoNotRead
                  THEN [solved |-> FALSE, val |-> NoParams, exc |-> ""]
                  ELSE StereoLoadOutcome(data)]

update_stereo_button_state(p) ==
    /\ spc[p] = "idle"
    /\ LET rl == StereoReload(stereo_fs)
       IN  /\ stereo_params' = [stereo_params EXCEPT ![p] = rl.out.val]
           /\ StereoCompleted(p, "reload", <<>>, <<>>, rl.out, rl.data)
    /\ UNCHANGED <<spc, arrays, stereo_fs, outside_stereo>>

InitStereo ==
    /\ InitCalibrators(NoFile)
    /\ PoseAtRest
    /\ CameraAtRest
    /\ MainAtRest
    /\ StreamsAtRest
    /\ WorkflowAtRest
    /\ WindowAtRest
    /\ BoardAtRest
    /\ NamesAtRest
    /\ StereoAtRest
    /\ TriangulatorAtRest

NextStereo ==
    \E p \in Procs :
       \/ stereo_calibrate(p)
       \/ stereo_calibrate_and_save(p)
       \/ params_save_call(p)
       \/ params_save_open(p)
       \/ params_save_write(p)
       \/ params_load(p)
       \/ update_stereo_button_state(p)

SpecStereo == InitStereo /\ [][NextStereo]_vars

(***************************************************************************)
(* estimators/triangulation.py: OpenCVTriangulator on the StereoParams     *)
(* instance of one caller                                                  *)
(***************************************************************************)
outside_triangulator == <<calibratorvars, namevars, stereovars, boardvars, winvars, runvars, streamvars, mainvars, camvars, posevars>>

\* The caller whose StereoParams instance the triangulator is built from.
Owner == "winA"

\* float64 values outside the integers: the results of x / 0.
PosInf == 1000
NegInf == -1000
NaN == 9999

IsFinite(a) == a \notin {PosInf, NegInf, NaN}

\* a * b in float64
FMul(a, b) ==
    IF a = NaN \/ b = NaN THEN NaN
    ELSE IF IsFinite(a) /\ IsFinite(b) THEN a * b
    ELSE IF a = 0 \/ b = 0 THEN NaN
    ELSE IF (a > 0) = (b > 0) THEN PosInf ELSE NegInf

\* a + b in float64
FAdd(a, b) ==
    IF a = NaN \/ b = NaN THEN NaN
    ELSE IF IsFinite(a) /\ IsFinite(b) THEN a + b
    ELSE IF IsFinite(b) THEN a
    ELSE IF IsFinite(a) THEN b
    ELSE IF a = b THEN a ELSE NaN

\* a / w in float64, for finite a and w (the quotients that occur are whole).
FDiv(a, w) ==
    IF w = 0 THEN (IF a = 0 THEN NaN ELSE IF a > 0 THEN PosInf ELSE NegInf)
    ELSE IF w > 0 THEN a \div w
    ELSE (0 - a) \div (0 - w)

\* a > b and a >= b in float64: false when either side is NaN.
FGt(a, b) == a # NaN /\ b # NaN /\ a > b
FGe(a, b) == a # NaN /\ b # NaN /\ a >= b

\* Row times vector, matrix times vector, vector plus vector (numpy @ and +).
Dot(row, v) ==
    FAdd(FAdd(FMul(row[1], v[1]), FMul(row[2], v[2])), FMul(row[3], v[3]))
MatVec(m, v) == [i \in 1..3 |-> Dot(m[i], v)]
VecAdd(v, w) == [i \in 1..3 |-> FAdd(v[i], w[i])]

\* Mutant: P2 = [R | 0].
TriangulatorP2_notrans(params) == <<params.r, <<0, 0, 0>>>>

\* np.hstack([params.r, params.t.reshape(3, 1)]): the matrix [R | T].
TriangulatorP2(params) == <<params.r, params.t>>

\* np.hstack([np.eye(3), np.zeros((3, 1))]): the matrix [I | 0].
TriangulatorP1 == <<<<<<1, 0, 0>>, <<0, 1, 0>>, <<0, 0, 1>>>>, <<0, 0, 0>>>>

\* OpenCVTriangulator(params)
construct_triangulator ==
    /\ triangulator = NoTriangulator
    /\ stereo_params[Owner] # NoParams
    /\ triangulator' = [params |-> Owner, p1 |-> TriangulatorP1,
                        p2 |-> TriangulatorP2(stereo_params[Owner])]
    /\ UNCHANGED <<tri_ret, outside_triangulator>>

\* pts.shape of an (N, 2) array.
Shape(pts) == <<Len(pts), 2>>

\* cv2.undistortPoints on one pixel: the normalized coordinate, for a
\* principal point at pixel 1 and unit focal length.
UndistortPoint(u) == u - 1

\* cv2.triangulatePoints on one pair of normalized points: the homogeneous
\* column <<X, Y, Z, W>> of the pair, W being the disparity of the pair.
TriangulatePoint(n1, n2) == <<2 * n1, 0, 2, n1 - n2>>

\* (xh[:3] / xh[3]) for one column.
Dehomogenize(xh) == [i \in 1..3 |-> FDiv(xh[i], xh[4])]

\* Mutant: the positions come out in reverse order.
Positions_reversed(pts1, pts2) ==
    [i \in 1..Len(pts1) |->
        Dehomogenize(TriangulatePoint(UndistortPoint(pts1[Len(pts1) + 1 - i]),
                                      UndistortPoint(pts2[Len(pts1) + 1 - i])))]

\* x: undistortPoints, triangulatePoints and the division, column by column.
Positions(pts1, pts2) ==
    [i \in 1..Len(pts1) |->
        Dehomogenize(TriangulatePoint(UndistortPoint(pts1[i]),
                                      UndistortPoint(pts2[i])))]

\* Mutant: a point on the second camera's plane (z2 = 0) counts as valid.
Cheirality_nonneg(x, r, t) ==
    LET z1 == x[3]
        x2 == VecAdd(MatVec(r, x), t)
        z2 == x2[3]
    IN  FGt(z1, 0) /\ FGe(z2, 0)

\* z1 = x[:, 2]; x2 = (p.r @ x.T + p.t.reshape(3, 1)).T; z2 = x2[:, 2];
\* mask = (z1 > 0.0) & (z2 > 0.0), for one point.
Cheirality(x, r, t) ==
    LET z1 == x[3]
        x2 == VecAdd(MatVec(r, x), t)
        z2 == x2[3]
    IN  FGt(z1, 0) /\ FGt(z2, 0)

\* triangulate(pts1_px, pts2_px)
triangulate ==
    /\ triangulator # NoTriangulator
    /\ tri_ret.op = ""
    /\ LET pts1 == tri_ret.pts1_px
           pts2 == tri_ret.pts2_px
           p    == stereo_params[triangulator.params]
           x    == Positions(pts1, pts2)
           mask == [i \in 1..Len(x) |-> Cheirality(x[i], p.r, p.t)]
       IN  IF Shape(pts1) # Shape(pts2)
           THEN tri_ret' = [tri_ret EXCEPT !.op = "triangulate",
                                           !.exc = "AssertionError"]
           ELSE \/ /\ Len(pts1) = 0      \* OpenCV may refuse empty arrays
                   /\ tri_ret' = [tri_ret EXCEPT !.op = "triangulate",
                                                 !.exc = "cv2.error"]
                \/ tri_ret' = [tri_ret EXCEPT !.op = "triangulate",
                                              !.x = x, !.mask = mask]
    /\ UNCHANGED <<triangulator, outside_triangulator>>

\* reprojection_rmse(X, pts1_px, pts2_px) on the result of triangulate
reprojection_rmse ==
    /\ triangulator # NoTriangulator
    /\ tri_ret.op = "triangulate"
    /\ tri_ret.exc = ""
    /\ tri_ret' = [tri_ret EXCEPT !.op = "reprojection_rmse",
                                  !.rmse = <<"rmse", Len(tri_ret.x)>>]
    /\ UNCHANGED <<triangulator, outside_triangulator>>

InitTri ==
    /\ InitCalibrators(NoFile)
    /\ PoseAtRest
    /\ CameraAtRest
    /\ MainAtRest
    /\ StreamsAtRest
    /\ WorkflowAtRest
    /\ WindowAtRest
    /\ BoardAtRest
    /\ NamesAtRest
    /\ spc = [p \in Procs |-> "idle"]
    /\ \E r \in Rotations, t \in Translations :
          stereo_params =
             [p \in Procs |->
                IF p = Owner
                THEN StereoParams(<<"out", "k1">>, <<"out", "d1">>,
                                  <<"out", "k2">>, <<"out", "d2">>,
                                  r, t, <<"rectified", 1>>)
                ELSE NoParams]
    /\ arrays = CallerArrays
    /\ stereo_fs = [p \in {} |-> StereoMissing]
    /\ sret = NoStereoCall
    /\ triangulator = NoTriangulator
    /\ \E pts1 \in PixelArrays, pts2 \in PixelArrays :
          tri_ret = NoTriCall(pts1, pts2)

NextTri ==
    \/ construct_triangulator
    \/ triangulate
    \/ reprojection_rmse
    \/ params_save_call(Owner)
    \/ params_save_open(Owner)
    \/ params_save_write(Owner)

SpecTri == InitTri /\ [][NextTri]_vars

(***************************************************************************)
(* The object-point generators, applied to one board geometry              *)
(***************************************************************************)
outside_board == <<calibratorvars, namevars, stereovars, trivars, winvars, runvars, streamvars, mainvars, camvars, posevars>>

\* CameraCalibrator.__init__: self._objp = self._create_object_points().
create_object_points_call ==
    /\ objp.created = None
    /\ objp' = [objp EXCEPT !.created =
                    CreateObjectPoints(objp.board_size, objp.square_size)]
    /\ UNCHANGED outside_board

\* stereo_calibrate: objp = _make_object_points(board_size, square_size_m).
make_object_points_call ==
    /\ objp.made = None
    /\ objp' = [objp EXCEPT !.made =
                    make_object_points(objp.board_size, objp.square_size)]
    /\ UNCHANGED outside_board

InitBoard ==
    /\ InitCalibrators(NoFile)
    /\ PoseAtRest
    /\ CameraAtRest
    /\ MainAtRest
    /\ StreamsAtRest
    /\ WorkflowAtRest
    /\ WindowAtRest
    /\ NamesAtRest
    /\ StereoAtRest
    /\ TriangulatorAtRest
    /\ \E cols \in 1..MaxBoard, rows \in 1..MaxBoard, size \in SquareSizes :
          objp = NoBoard(<<cols, rows>>, size)

NextBoard ==
    \/ create_object_points_call
    \/ make_object_points_call

SpecBoard == InitBoard /\ [][NextBoard]_vars

(***************************************************************************)
(* CameraPreviewWindow: its handlers, each run to completion on the GUI    *)
(* thread.  The window's calibrator is the instance Cal, its artifact path *)
(* _calib_file_path(self.device_id) is FileName.  The lock of an artifact  *)
(* may be held by another process for longer than the timeout.             *)
(***************************************************************************)
outside_window == <<namevars, stereovars, trivars, boardvars, runvars, streamvars, mainvars, camvars, posevars>>

\* self.calibrator
Cal == "calA"

\* What the window's handlers never touch of the calibrator variables.
window_frame == <<pc, exc, held, returned, before, seen>>

\* self.calibrator gets these fields (of a new or of the same instance).
SetCalibrator(objs, imgs, cm, dc, rv, re) ==
    /\ object_points' = [object_points EXCEPT ![Cal] = objs]
    /\ image_points'  = [image_points EXCEPT ![Cal] = imgs]
    /\ camera_matrix' = [camera_matrix EXCEPT ![Cal] = cm]
    /\ dist_coeffs'   = [dist_coeffs EXCEPT ![Cal] = dc]
    /\ rvecs'         = [rvecs EXCEPT ![Cal] = rv]
    /\ reproj_error'  = [reproj_error EXCEPT ![Cal] = re]

\* CameraCalibrator.load(calib_path) as one call: the lock (or its Timeout),
\* the assignments, the release.
LoadCall(f, cm, dc, re, locked) ==
    IF locked
    THEN [fs |-> f, cm |-> cm, dc |-> dc, re |-> re, exc |-> "Timeout"]
    ELSE LET f1  == WriteFile(f, LoadLockPath(FileName), LockFile)
             out == LoadBody(NpLoad(f1, FileName), cm, dc, re)
         IN  [fs |-> f1, cm |-> out[1], dc |-> out[2], re |-> out[3],
              exc |-> out[4]]

\* finally: if Path(tmp_path).exists(): Path(tmp_path).unlink(missing_ok=True)
SaveFinally(f) ==
    IF Exists(f, TmpPath(FileName)) THEN Unlink(f, TmpPath(FileName)) ELSE f

\* CameraCalibrator.save(calib_path) of a calibrated instance as one call:
\* every way it can end, as the files it leaves and the exception raised
\* inside it.
SaveOutcomes(f, content) ==
    LET f1 == WriteFile(f, SaveLockPath(FileName), LockFile)
        f2 == WriteFile(f1, SavezTarget(TmpPath(FileName)), PartialFile)
        f3 == WriteFile(f1, SavezTarget(TmpPath(FileName)), content)
    IN  {[fs |-> f, exc |-> "Timeout"],
         [fs |-> SaveFinally(f1), exc |-> "OSError"],
         [fs |-> SaveFinally(f2), exc |-> "OSError"],
         IF Exists(f3, TmpPath(FileName))
         THEN [fs |-> SaveFinally(Replace(f3, TmpPath(FileName), FileName)),
               exc |-> ""]
         ELSE [fs |-> SaveFinally(f3), exc |-> "FileNotFoundError"]}

StopCalibration_keepdone(cancel, w, f, cm, dc, re, locked) ==
    [win |-> [w EXCEPT !.calibrating = FALSE], fs |-> f,
     cm |-> cm, dc |-> dc, re |-> re]

\* _stop_calibration(cancel): the window, the files and the calibrator's
\* parameters after it.
StopCalibration(cancel, w, f, cm, dc, re, locked) ==
    LET w1 == [w EXCEPT !.calibrating = FALSE] IN
    IF ~cancel
    THEN [win |-> w1, fs |-> f, cm |-> cm, dc |-> dc, re |-> re]
    ELSE IF Exists(f, FileName)
    THEN LET ld == LoadCall(f, cm, dc, re, locked) IN
         [win |-> [w1 EXCEPT !.calibration_done = (ld.exc = ""),
                             !.reload = IF ld.exc = "" THEN "ok" ELSE ld.exc],
          fs |-> ld.fs, cm |-> ld.cm, dc |-> ld.dc, re |-> ld.re]
    ELSE [win |-> [w1 EXCEPT !.calibration_done = FALSE, !.reload = "absent"],
          fs |-> f, cm |-> cm, dc |-> dc, re |-> re]

\* MainWindow._toggle_camera(checked): the stream has been started and a
\* CameraPreviewWindow is constructed, with a new calibrator into which an
\* existing artifact is loaded.
construct_window ==
    /\ ~win.open
    /\ \E locked \in BOOLEAN :
         LET w0 == [NoWindow EXCEPT !.open = TRUE, !.stream_running = TRUE,
                                    !.registered = TRUE]
         IN  IF Exists(fs, FileName)
             THEN LET ld == LoadCall(fs, None, None, None, locked) IN
                  /\ win' = [w0 EXCEPT !.calibration_done = (ld.exc = ""),
                                       !.reload = IF ld.exc = "" THEN "ok"
                                                  ELSE ld.exc]
                  /\ fs' = ld.fs
                  /\ SetCalibrator(<<>>, <<>>, ld.cm, ld.dc, None, ld.re)
             ELSE /\ win' = [w0 EXCEPT !.reload = "absent"]
                  /\ fs' = fs
                  /\ SetCalibrator(<<>>, <<>>, None, None, None, None)
    /\ UNCHANGED <<outside_window, window_frame>>

\* _on_frame_ready: the newest frame of the camera's stream.
on_frame_ready ==
    /\ win.open
    /\ win.stream_running
    /\ \E image \in Frames :
         /\ win.last_image # image
         /\ win' = [win EXCEPT !.last_image = image]
    /\ UNCHANGED <<outside_window, calibratorvars>>

\* _on_calib_toggle(checked): a click on the (enabled) calibration button.
\* checked: a run starts with a new CameraCalibrator; unchecked: the run is
\* cancelled.
on_calib_toggle ==
    /\ win.open
    /\ win.calib_button_enabled
    /\ IF ~win.calibrating
       THEN /\ win' = [win EXCEPT !.calibrating = TRUE]
            /\ SetCalibrator(<<>>, <<>>, None, None, None, None)
            /\ UNCHANGED fs
       ELSE \E locked \in BOOLEAN :
              LET st == StopCalibration(TRUE, win, fs, camera_matrix[Cal],
                                        dist_coeffs[Cal], reproj_error[Cal],
                                        locked)
              IN  /\ win' = st.win
                  /\ fs' = st.fs
                  /\ SetCalibrator(object_points[Cal], image_points[Cal],
                                   st.cm, st.dc, rvecs[Cal], st.re)
    /\ UNCHANGED <<outside_window, window_frame>>

\* _on_calib_frame_timer: one more frame for the running calibration; with
\* ImagesRequired observations calibrate, save, and stop the run.
on_calib_frame_timer ==
    /\ win.open
    /\ win.calibrating
    /\ win.last_image # NoImage
    /\ LET det  == FindChessboardCorners(win.last_image)
           st   == IF det.found
                   THEN StoreObservation(object_points[Cal], image_points[Cal],
                                         det.corners)
                   ELSE <<object_points[Cal], image_points[Cal]>>
           sol  == CalibrateCamera(st[1], st[2])
           re   == calc_reprojection_error(st[1], st[2], sol.rvecs, sol.mtx,
                                           sol.dist)
           stop == [win EXCEPT !.calibrating = FALSE]
       IN  IF Len(st[2]) < ImagesRequired
           THEN /\ det.found
                /\ SetCalibrator(st[1], st[2], camera_matrix[Cal],
                                 dist_coeffs[Cal], rvecs[Cal], reproj_error[Cal])
                /\ UNCHANGED <<win, fs>>
           ELSE \* calibrate raises (too few images, cv2.error): nothing set
                \/ /\ SetCalibrator(st[1], st[2], camera_matrix[Cal],
                                    dist_coeffs[Cal], rvecs[Cal],
                                    reproj_error[Cal])
                   /\ win' = StopCalibration(FALSE, win, fs, None, None, None,
                                             FALSE).win
                   /\ UNCHANGED fs
                \* calibrate returns; save ends one way or another
                \/ /\ ~InsufficientImages(st[1])
                   /\ SetCalibrator(st[1], st[2], sol.mtx, sol.dist, sol.rvecs, re)
                   /\ \E o \in SaveOutcomes(fs,
                                 Artifact(sol.mtx, sol.dist,
                                          IF re = None THEN ObjNone ELSE re)) :
                        fs' = o.fs
                   /\ win' = StopCalibration(FALSE,
                                 [win EXCEPT !.calibration_done = TRUE], fs,
                                 None, None, None, FALSE).win
    /\ UNCHANGED <<outside_window, window_frame>>

\* Mutant: the button follows the flag instead of its negation.
ButtonEnabled_same(enabled) == enabled

\* self.calib_button.setEnabled(not enabled)
ButtonEnabled(enabled) == ~enabled

\* The window after set_pose_estimation_enabled(enabled).
SetPoseEstimation(w, enabled) ==
    [w EXCEPT !.pose_estimation_enabled = enabled,
              !.calib_button_enabled = ButtonEnabled(enabled)]

\* set_pose_estimation_enabled(enabled), called by the main window's
\* estimation toggle.
set_pose_estimation_enabled ==
    /\ win.open
    /\ \E enabled \in BOOLEAN : win' = SetPoseEstimation(win, enabled)
    /\ UNCHANGED <<outside_window, calibratorvars>>

\* Mutant: closeEvent without the check of the pose estimation.
CloseRefused_never(w) == FALSE

\* if self._pose_estimation_enabled and not self._force_close
CloseRefused(w) == w.pose_estimation_enabled /\ ~w.force_close

\* closeEvent(event) of window w: a running calibration is cancelled; the
\* event is ignored, or the window shuts down: pose estimation off, the
\* stream stopped, on_closed called (MainWindow._on_preview_closed drops
\* the window from _preview_windows), the event accepted.
closeEvent(w) ==
    \E locked \in BOOLEAN :
      LET st == IF w.calibrating
                THEN StopCalibration(TRUE, w, fs, camera_matrix[Cal],
                                     dist_coeffs[Cal], reproj_error[Cal], locked)
                ELSE [win |-> w, fs |-> fs, cm |-> camera_matrix[Cal],
                      dc |-> dist_coeffs[Cal], re |-> reproj_error[Cal]]
      IN  /\ fs' = st.fs
          /\ SetCalibrator(object_points[Cal], image_points[Cal], st.cm, st.dc,
                           rvecs[Cal], st.re)
          /\ win' = IF CloseRefused(st.win)
                    THEN [st.win EXCEPT !.event = "ignored"]
                    ELSE [SetPoseEstimation(st.win, FALSE) EXCEPT
                             !.force_close = FALSE,
                             !.stream_running = FALSE,
                             !.on_closed_calls = @ + 1,
                             !.registered = FALSE,
                             !.event = "accepted",
                             !.open = FALSE]

\* close(): the user closes the window, or MainWindow._toggle_camera does.
close_request ==
    /\ win.open
    /\ closeEvent(win)
    /\ UNCHANGED <<outside_window, window_frame>>

\* force_close(): self._force_close = True; self.close()
force_close ==
    /\ win.open
    /\ closeEvent([win EXCEPT !.force_close = TRUE])
    /\ UNCHANGED <<outside_window, window_frame>>

\* The artifact of the camera as the program may find it: none, one stored
\* earlier, or a file that is no archive.
WindowStartFiles == StartFiles \cup {PartialFile}

InitWindow ==
    /\ \E init \in WindowStartFiles : InitCalibrators(init)
    /\ PoseAtRest
    /\ CameraAtRest
    /\ MainAtRest
    /\ StreamsAtRest
    /\ WorkflowAtRest
    /\ WindowAtRest
    /\ BoardAtRest
    /\ NamesAtRest
    /\ StereoAtRest
    /\ TriangulatorAtRest

NextWindow ==
    \/ construct_window
    \/ on_frame_ready
    \/ on_calib_toggle
    \/ on_calib_frame_timer
    \/ set_pose_estimation_enabled
    \/ close_request
    \/ force_close

SpecWindow == InitWindow /\ [][NextWindow]_vars

(***************************************************************************)
(* MainWindow._run_stereo_calibration, the handler of the stereo button;   *)
(* its params.save(stereo_path) step by step, as other processes may read  *)
(* the artifact meanwhile                                                  *)
(***************************************************************************)
outside_workflow ==
    <<calibratorvars, namevars, trivars, boardvars, winvars, streamvars,
      mainvars, camvars, posevars>>

\* np.load of the two intrinsics artifacts and the reads of camera_matrix
\* and dist_coeffs: the exception raised, "" for none.
IntrinsicsRead == {"", "FileNotFoundError", "BadZipFile", "KeyError"}

\* Mutant: one detected board is enough.
BoardsFound_either(img1, img2) ==
    FindChessboardCorners(img1).found \/ FindChessboardCorners(img2).found

\* found1 and found2 of cv2.findChessboardCorners on the two frames.
BoardsFound(img1, img2) ==
    FindChessboardCorners(img1).found /\ FindChessboardCorners(img2).found

\* The handler of p ends after its try block: _update_stereo_button_state()
\* reloads self._stereo_params from the artifact on disk.
RunEnds(p, img1, img2, called, how, f) ==
    /\ run' = [run EXCEPT ![p] = [img1 |-> img1, img2 |-> img2,
                                  called |-> called, params |-> NoParams,
                                  ended |-> how]]
    /\ stereo_params' = [stereo_params EXCEPT ![p] = StereoReload(f).out.val]
    /\ spc' = [spc EXCEPT ![p] = "idle"]

\* _run_stereo_calibration(previews) up to params.save: the frames, the
\* intrinsics, the detection, stereo_calibrate([corners1], [corners2], ...).
run_stereo_calibration(p) ==
    /\ spc[p] = "idle"
    /\ \E img1 \in LatestFrames, img2 \in LatestFrames :
         IF img1 = "" \/ img2 = ""
         THEN \* QMessageBox.warning; return
              /\ run' = [run EXCEPT ![p] = [img1 |-> img1, img2 |-> img2,
                                            called |-> FALSE,
                                            params |-> NoParams,
                                            ended |-> "no frame"]]
              /\ UNCHANGED <<spc, stereo_params>>
         ELSE \E read \in IntrinsicsRead :
                IF read # ""
                THEN RunEnds(p, img1, img2, FALSE, read, stereo_fs)
                ELSE IF ~BoardsFound(img1, img2)
                THEN RunEnds(p, img1, img2, FALSE, "ValueError", stereo_fs)
                ELSE \E out \in StereoCalibrateOutcomes(
                                  <<FindChessboardCorners(img1).corners>>,
                                  <<FindChessboardCorners(img2).corners>>) :
                       IF out.exc # ""
                       THEN RunEnds(p, img1, img2, out.solved, out.exc,
                                    stereo_fs)
                       ELSE /\ run' = [run EXCEPT ![p] =
                                         [img1 |-> img1, img2 |-> img2,
                                          called |-> TRUE, params |-> out.val,
                                          ended |-> ""]]
                            /\ spc' = [spc EXCEPT ![p] = "run_save_open"]
                            /\ UNCHANGED stereo_params
    /\ UNCHANGED <<arrays, stereo_fs, sret, outside_workflow>>

\* params.save(stereo_path): np.savez_compressed opens the archive at the
\* path for writing, or fails to, which ends the handler.
run_save_open(p) ==
    /\ spc[p] = "run_save_open"
    /\ \/ /\ stereo_fs' = WriteFile(stereo_fs, SavezTarget(StereoFile),
                                    StereoPartial)
          /\ spc' = [spc EXCEPT ![p] = "run_save_write"]
          /\ UNCHANGED <<run, stereo_params>>
       \/ /\ RunEnds(p, run[p].img1, run[p].img2, TRUE, "OSError", stereo_fs)
          /\ UNCHANGED stereo_fs
    /\ UNCHANGED <<arrays, sret, outside_workflow>>

\* np.savez_compressed writes and closes the archive; self._stereo_params =
\* params; then _update_stereo_button_state() reloads from the artifact.
run_save_write(p) ==
    /\ spc[p] = "run_save_write"
    /\ stereo_fs' = WriteFile(stereo_fs, SavezTarget(StereoFile),
                              StereoArtifact(run[p].params))
    /\ run' = [run EXCEPT ![p].ended = "saved"]
    /\ stereo_params' = [stereo_params EXCEPT ![p] =
                            StereoReload(stereo_fs').out.val]
    /\ spc' = [spc EXCEPT ![p] = "idle"]
    /\ UNCHANGED <<arrays, sret, outside_workflow>>

\* The stereo artifact as the program may find it: none, or one stored by
\* an earlier solve.
StereoStartFiles ==
    {[q \in {} |-> StereoMissing]} \cup
    {[q \in {StereoFile} |->
        StereoArtifact(StereoParams(<<"out", "k1">>, <<"out", "d1">>,
                                    <<"out", "k2">>, <<"out", "d2">>,
                                    s[1], s[2], <<"rectified", 1>>))] :
       s \in Solutions}

InitWorkflow ==
    /\ InitCalibrators(NoFile)
    /\ PoseAtRest
    /\ CameraAtRest
    /\ MainAtRest
    /\ StreamsAtRest
    /\ WorkflowAtRest
    /\ WindowAtRest
    /\ BoardAtRest
    /\ NamesAtRest
    /\ TriangulatorAtRest
    /\ spc = [p \in Procs |-> "idle"]
    /\ stereo_params = [p \in Procs |-> NoParams]
    /\ arrays = CallerArrays
    /\ stereo_fs \in StereoStartFiles
    /\ sret = NoStereoCall

NextWorkflow ==
    \E p \in Procs :
       \/ run_stereo_calibration(p)
       \/ run_save_open(p)
       \/ run_save_write(p)

SpecWorkflow == InitWorkflow /\ [][NextWorkflow]_vars

(***************************************************************************)
(* CameraStreamManager: start_camera, stop_camera, handle_error and        *)
(* cleanup_stream, and the CameraStream threads.  The body of every        *)
(* `with self._lock` is one step.  A stream's error and finished signals   *)
(* are posted to the manager's thread and handled there in the order in    *)
(* which they were posted.                                                 *)
(***************************************************************************)
outside_streams ==
    <<calibratorvars, namevars, stereovars, trivars, boardvars, winvars, runvars,
      mainvars, camvars, posevars>>

\* running_device_ids()
Running == {c \in CameraIds : streams[c] # NoStream}

\* self._device_index_lookup(camera_id)
DeviceIndexLookup(camera_id) ==
    IF camera_id \in CameraIds THEN <<"index", camera_id>> ELSE None

\* Mutant: no check for a stream that is already running.
StartRefused_never(strs, camera_id) == FALSE

\* if camera_id in self._streams
StartRefused(strs, camera_id) == strs[camera_id] # NoStream

\* A CameraStream just constructed and started for the camera.
NewStream(camera_id) == [id |-> camera_id, state |-> "running", stop |-> FALSE]

\* The call of start_camera or stop_camera that completed last: its
\* warning and the stream it started or stopped.
ManagerCompleted(op, camera_id, warning, stream, raced) ==
    mret' = [op |-> op, id |-> camera_id, warning |-> warning,
             stream |-> stream, raced |-> raced]

\* start_camera, the block under the lock: the warning for a running id, or
\* a new stream registered and started.
StartLocked(camera_id, raced) ==
    IF StartRefused(streams, camera_id)
    THEN /\ ManagerCompleted("start_camera", camera_id, "already running",
                             NoStream, raced)
         /\ UNCHANGED <<streams, created>>
    ELSE /\ Len(created) < MaxStarts
         /\ created' = Append(created, NewStream(camera_id))
         /\ streams' = [streams EXCEPT ![camera_id] = Len(created) + 1]
         /\ ManagerCompleted("start_camera", camera_id, "", Len(created) + 1,
                             raced)

\* start_camera(camera_id) as one call.
StartCamera(camera_id) ==
    IF DeviceIndexLookup(camera_id) = None
    THEN /\ ManagerCompleted("start_camera", camera_id, "not found", NoStream,
                             FALSE)
         /\ UNCHANGED <<streams, created>>
    ELSE StartLocked(camera_id, FALSE)

\* Mutant: an error is not remembered for the restart.
PendingAfterError_lost(auto, pending, camera_id) == pending

\* if self._auto_restart: self._pending_restart.add(camera_id)
PendingAfterError(auto, pending, camera_id) ==
    IF auto THEN pending \cup {camera_id} ELSE pending

\* stream.stop(): QThread.requestInterruption(), which does nothing on a
\* thread that has finished.
Stopped(stream) ==
    IF stream.state = "finished" THEN stream ELSE [stream EXCEPT !.stop = TRUE]

\* handle_error(camera_id, msg): the stream registered for the id is asked
\* to stop; with auto_restart the id is pending.
handle_error(camera_id) ==
    /\ created' = IF streams[camera_id] # NoStream
                  THEN [created EXCEPT ![streams[camera_id]] = Stopped(@)]
                  ELSE created
    /\ pending_restart' =
           PendingAfterError(auto_restart, pending_restart, camera_id)
    /\ reported' = IF auto_restart
                   THEN [reported EXCEPT ![camera_id] = @ + 1] ELSE reported
    /\ UNCHANGED <<streams, timers, scheduled>>

\* cleanup_stream(camera_id): the entry of the id is deleted; a pending id
\* gets its restart scheduled and is pending no more.
cleanup_stream(camera_id) ==
    /\ streams' = [streams EXCEPT ![camera_id] = NoStream]
    /\ IF auto_restart /\ camera_id \in pending_restart
       THEN /\ pending_restart' = pending_restart \ {camera_id}
            /\ timers' = [timers EXCEPT ![camera_id] = @ + 1]
            /\ scheduled' = [scheduled EXCEPT ![camera_id] = @ + 1]
       ELSE UNCHANGED <<pending_restart, timers, scheduled>>

\* A thread calls start_camera(camera_id): the lookup, outside the lock.
start_lookup(t, camera_id) ==
    /\ starter[t].pc = "idle"
    /\ IF DeviceIndexLookup(camera_id) = None
       THEN /\ ManagerCompleted("start_camera", camera_id, "not found",
                                NoStream, FALSE)
            /\ UNCHANGED starter
       ELSE /\ starter' = [starter EXCEPT ![t] =
                             [pc |-> "lock", id |-> camera_id,
                              free |-> ~StartRefused(streams, camera_id)]]
            /\ UNCHANGED mret
    /\ UNCHANGED <<streams, created, queue, pending_restart, timers,
                   auto_restart, reported, scheduled, outside_streams>>

\* The thread gets the lock and runs the block under it.
start_locked(t) ==
    /\ starter[t].pc = "lock"
    /\ StartLocked(starter[t].id,
                   starter[t].free /\ StartRefused(streams, starter[t].id))
    /\ starter' = [starter EXCEPT ![t] = NotStarting]
    /\ UNCHANGED <<queue, pending_restart, timers, auto_restart, reported,
                   scheduled, outside_streams>>

\* The manager's thread is between two events with no posted signal left.
GuiIdle == queue = <<>>

\* MainWindow._toggle_camera(checked=True): start_camera from the GUI.
gui_start_camera(camera_id) ==
    /\ GuiIdle
    /\ StartCamera(camera_id)
    /\ UNCHANGED <<queue, pending_restart, timers, auto_restart, starter,
                   reported, scheduled, outside_streams>>

\* The QTimer.singleShot of cleanup_stream fires: self.start_camera(c).
restart_timer(camera_id) ==
    /\ GuiIdle
    /\ timers[camera_id] > 0
    /\ timers' = [timers EXCEPT ![camera_id] = @ - 1]
    /\ StartCamera(camera_id)
    /\ mret'.op = "start_camera"
    /\ UNCHANGED <<queue, pending_restart, auto_restart, starter, reported,
                   scheduled, outside_streams>>

\* What the thread of stream s posts until it has finished, once it is
\* asked to stop: a stream that has not opened its device yet may still
\* fail to.
LastSignals(s) ==
    LET id == created[s].id IN
    CASE created[s].state = "running" ->
            {<<<<"error", id>>, <<"finished", id>>>>, <<<<"finished", id>>>>}
      [] created[s].state = "errored" -> {<<<<"finished", id>>>>}
      [] OTHER -> {<<>>}

\* stop_camera(camera_id) as one call: the warning, or stream.stop(),
\* stream.wait() and cleanup_stream(camera_id).
StopCamera(camera_id) ==
    IF streams[camera_id] = NoStream
    THEN /\ ManagerCompleted("stop_camera", camera_id, "not running",
                             NoStream, FALSE)
         /\ UNCHANGED <<streams, created, queue, pending_restart, timers,
                        scheduled>>
    ELSE LET s == streams[camera_id] IN
         /\ \E posts \in LastSignals(s) : queue' = queue \o posts
         /\ created' = [created EXCEPT ![s].stop = FALSE,
                                       ![s].state = "finished"]
         /\ cleanup_stream(camera_id)
         /\ ManagerCompleted("stop_camera", camera_id, "", s, FALSE)

\* A thread calls stop_camera(camera_id).
stop_camera(camera_id) ==
    /\ StopCamera(camera_id)
    /\ UNCHANGED <<auto_restart, starter, reported, outside_streams>>

\* CameraPreviewWindow.closeEvent / MainWindow._toggle_camera: stop_camera
\* from the GUI.
gui_stop_camera(camera_id) ==
    /\ GuiIdle
    /\ stop_camera(camera_id)

\* CameraStream.run: the device does not open: self.error.emit(...); return.
\* (A running stream is one that is opening its device or capturing; the
\* manager cannot tell which.)
stream_fails(s) ==
    /\ s \in 1..Len(created)
    /\ created[s].state = "running"
    /\ created' = [created EXCEPT ![s].state = "errored"]
    /\ queue' = Append(queue, <<"error", created[s].id>>)
    /\ UNCHANGED <<streams, pending_restart, timers, auto_restart, starter,
                   mret, reported, scheduled, outside_streams>>

\* CameraStream.run returns (interruption requested, a failed read, or after
\* the error) and the thread emits finished.
stream_finishes(s) ==
    /\ s \in 1..Len(created)
    /\ created[s].state \in {"running", "errored"}
    /\ created' = [created EXCEPT ![s].state = "finished", ![s].stop = FALSE]
    /\ queue' = Append(queue, <<"finished", created[s].id>>)
    /\ UNCHANGED <<streams, pending_restart, timers, auto_restart, starter,
                   mret, reported, scheduled, outside_streams>>

\* The manager's thread handles the oldest posted signal: error goes to
\* handle_error, finished to cleanup_stream.
deliver ==
    /\ queue # <<>>
    /\ queue' = Tail(queue)
    /\ IF Head(queue)[1] = "error"
       THEN handle_error(Head(queue)[2])
       ELSE /\ cleanup_stream(Head(queue)[2])
            /\ UNCHANGED <<created, reported>>
    /\ UNCHANGED <<auto_restart, starter, mret, outside_streams>>

InitStreams ==
    /\ InitCalibrators(NoFile)
    /\ PoseAtRest
    /\ CameraAtRest
    /\ MainAtRest
    /\ WorkflowAtRest
    /\ WindowAtRest
    /\ BoardAtRest
    /\ NamesAtRest
    /\ StereoAtRest
    /\ TriangulatorAtRest
    /\ \E auto \in BOOLEAN : InitManager(auto)

\* The manager as the GUI drives it: every call is made by the manager's
\* thread, from an event handled after the signals posted before it.
NextStreams ==
    \/ \E c \in CameraIds \cup {UnknownId} : gui_start_camera(c)
    \/ \E c \in CameraIds :
          \/ gui_stop_camera(c)
          \/ restart_timer(c)
    \/ \E s \in 1..MaxStarts :
          \/ stream_fails(s)
          \/ stream_finishes(s)
    \/ deliver

SpecStreams == InitStreams /\ [][NextStreams]_vars

\* The thread of stream s leaves its loop once the interruption is
\* requested, and returns after the error.
stream_runs(s) ==
    /\ s \in 1..Len(created)
    /\ created[s].stop \/ created[s].state = "errored"
    /\ stream_fails(s) \/ stream_finishes(s)

\* The threads of the streams are scheduled, and the event loop of the
\* manager's thread handles every posted signal.
FairSpecStreams ==
    /\ SpecStreams
    /\ WF_vars(deliver)
    /\ \A s \in 1..MaxStarts : WF_vars(stream_runs(s))

\* The ids the calling threads compete for.
RacedIds == {"0", "1"}

\* The manager called by several threads at any time, without auto restart.
InitStarts ==
    /\ InitCalibrators(NoFile)
    /\ PoseAtRest
    /\ CameraAtRest
    /\ MainAtRest
    /\ WorkflowAtRest
    /\ WindowAtRest
    /\ BoardAtRest
    /\ NamesAtRest
    /\ StereoAtRest
    /\ TriangulatorAtRest
    /\ InitManager(FALSE)

NextStarts ==
    \/ \E t \in Callers :
          \/ \E c \in RacedIds \cup {UnknownId} : start_lookup(t, c)
          \/ start_locked(t)
    \/ \E c \in RacedIds : stop_camera(c)
    \/ \E s \in 1..MaxStarts : stream_finishes(s)
    \/ deliver

SpecStarts == InitStarts /\ [][NextStarts]_vars

(***************************************************************************)
(* CameraCalibrator.load given the artifacts another program, an older     *)
(* version or an interrupted writer may have left at the path.             *)
(***************************************************************************)

\* An archive that holds camera_matrix but no dist_coeffs.
NoDistArtifact == Artifact(<<"stored", 1>>, Absent, Absent)

\* An archive np.savez wrote with reproj_error=None.
NoneErrorArtifact == Artifact(<<"stored", 1>>, <<"stored", 1>>, ObjNone)

ArtifactsOnDisk ==
    StartFiles \cup {PartialFile, NoDistArtifact, NoneErrorArtifact}

InitLoad ==
    /\ \E init \in ArtifactsOnDisk : InitCalibrators(init)
    /\ MainAtRest
    /\ CameraAtRest
    /\ PoseAtRest
    /\ StreamsAtRest
    /\ WorkflowAtRest
    /\ WindowAtRest
    /\ BoardAtRest
    /\ NamesAtRest
    /\ StereoAtRest
    /\ TriangulatorAtRest

NextLoad ==
    \E c \in Calibrators :
        \/ add_chessboard_image(c)
        \/ calibrate(c)
        \/ load_call(c)
        \/ load_acquire(c)
        \/ load_timeout(c)
        \/ load_read(c)
        \/ load_release(c)

SpecLoad == InitLoad /\ [][NextLoad]_vars

(***************************************************************************)
(* MainWindow: _toggle_camera, _toggle_global_estimation and the preview   *)
(* windows it keeps in _preview_windows, each handler run to completion on *)
(* the GUI thread.  _toggle_camera is the slot of a camera's start/stop    *)
(* button and is taken as callable whatever the state of the button, as    *)
(* the check at its start supposes.  The artifact of a camera is there and *)
(* loads, or not, whenever a preview looks for it.                         *)
(***************************************************************************)
outside_main ==
    <<calibratorvars, namevars, stereovars, trivars, boardvars, winvars, runvars,
      camvars, posevars>>

\* What no handler of the main window or of a preview changes of the
\* stream manager.
manager_frame == <<auto_restart, starter, reported>>

\* any(p.calibration_done for p in self._preview_windows.values())
HasReady(previews) ==
    \E c \in TableIds : previews[c].open /\ previews[c].calibration_done

\* _update_global_est_button_state()
UpdateGlobalEstButton == global_est_enabled' = HasReady(preview_windows')

\* Mutant: _toggle_camera without the check of _launch_enabled.
StartIgnored_never(checked, launch) == FALSE

\* if checked and not self._launch_enabled: return
StartIgnored(checked, launch) == checked /\ ~launch

\* self._launch_enabled = not checked
LaunchEnabled(checked) == ~checked

\* CameraPreviewWindow.__init__: the fields, and calibration_done set by the
\* load of an existing artifact into the new calibrator.
ConstructPreview(loaded) ==
    [NoPreview EXCEPT !.open = TRUE, !.calibration_done = loaded]

\* _stop_calibration(cancel) of preview w; reloaded: the artifact exists
\* and loads.
PreviewStopCalibration(w, cancel, reloaded) ==
    IF cancel
    THEN [w EXCEPT !.calibrating = FALSE, !.calibration_done = reloaded]
    ELSE [w EXCEPT !.calibrating = FALSE]

\* CameraPreviewWindow.closeEvent of the preview of device_id: a running
\* calibration is cancelled (which updates the global estimation button);
\* the event is ignored, or pose estimation is switched off, the stream is
\* stopped and _on_preview_closed drops the preview from _preview_windows
\* and updates the button.
PreviewCloseEvent(device_id) ==
    \E reloaded \in BOOLEAN :
      LET w  == preview_windows[device_id]
          w1 == IF w.calibrating
                THEN PreviewStopCalibration(w, TRUE, reloaded) ELSE w
      IN  /\ IF CloseRefused(w1)
             THEN /\ preview_windows' =
                         [preview_windows EXCEPT ![device_id] = w1]
                  /\ UNCHANGED <<streams, created, queue, pending_restart,
                                 timers, scheduled, mret>>
             ELSE /\ preview_windows' =
                         [preview_windows EXCEPT ![device_id] = NoPreview]
                  /\ StopCamera(device_id)
          /\ UpdateGlobalEstButton

\* _toggle_camera(device_id, checked)
toggle_camera(device_id, checked) ==
    /\ GuiIdle
    /\ toggled' = [id |-> device_id, checked |-> checked,
                   ignored |-> StartIgnored(checked, launch_enabled)]
    /\ IF StartIgnored(checked, launch_enabled)
       THEN UNCHANGED <<preview_windows, global_est_enabled, streams, created,
                        queue, pending_restart, timers, scheduled, mret>>
       ELSE IF checked
       THEN /\ StartCamera(device_id)
            /\ IF ~preview_windows[device_id].open
               THEN \E loaded \in BOOLEAN :
                      preview_windows' = [preview_windows EXCEPT
                          ![device_id] = ConstructPreview(loaded)]
               ELSE UNCHANGED preview_windows
            /\ UpdateGlobalEstButton
            /\ UNCHANGED <<queue, pending_restart, timers, scheduled>>
       ELSE IF preview_windows[device_id].open
       THEN PreviewCloseEvent(device_id)
       ELSE /\ StopCamera(device_id)
            /\ UNCHANGED preview_windows
            /\ UpdateGlobalEstButton
    /\ UNCHANGED <<estimation_active, launch_enabled, manager_frame,
                   outside_main>>

\* The user closes the preview of device_id: close(), closeEvent.
preview_close(device_id) ==
    /\ GuiIdle
    /\ preview_windows[device_id].open
    /\ PreviewCloseEvent(device_id)
    /\ UNCHANGED <<estimation_active, launch_enabled, toggled, manager_frame,
                   outside_main>>

\* _on_calib_toggle(checked) of the preview of device_id: a click on its
\* (enabled) calibration button starts a run with a new calibrator, or
\* cancels the run.
preview_calib_toggle(device_id) ==
    /\ preview_windows[device_id].open
    /\ preview_windows[device_id].calib_button_enabled
    /\ IF ~preview_windows[device_id].calibrating
       THEN /\ preview_windows' =
                   [preview_windows EXCEPT ![device_id].calibrating = TRUE]
            /\ UNCHANGED global_est_enabled
       ELSE /\ \E reloaded \in BOOLEAN :
                 preview_windows' = [preview_windows EXCEPT ![device_id] =
                     PreviewStopCalibration(@, TRUE, reloaded)]
            /\ UpdateGlobalEstButton
    /\ UNCHANGED <<estimation_active, launch_enabled, toggled, streamvars,
                   outside_main>>

\* _on_calib_frame_timer of the preview of device_id, at the tick that
\* brings the observations to CALIB_IMAGES_REQUIRED: calibrate returns
\* (calibration_done = True, whatever save does) or raises, and the run
\* stops.
preview_calib_frame_timer(device_id) ==
    /\ preview_windows[device_id].open
    /\ preview_windows[device_id].calibrating
    /\ \E calibrated \in BOOLEAN :
         preview_windows' = [preview_windows EXCEPT ![device_id] =
             PreviewStopCalibration(
                 [@ EXCEPT !.calibration_done = calibrated \/ @],
                 FALSE, FALSE)]
    /\ UpdateGlobalEstButton
    /\ UNCHANGED <<estimation_active, launch_enabled, toggled, streamvars,
                   outside_main>>

\* _toggle_global_estimation(checked): a click on the (enabled, checkable)
\* global estimation button.
toggle_global_estimation ==
    /\ GuiIdle
    /\ global_est_enabled
    /\ LET checked == ~estimation_active IN
         /\ estimation_active' = checked
         /\ preview_windows' =
               [c \in TableIds |->
                  IF preview_windows[c].open
                     /\ preview_windows[c].calibration_done
                  THEN SetPoseEstimation(preview_windows[c], checked)
                  ELSE preview_windows[c]]
         /\ launch_enabled' = LaunchEnabled(checked)
    /\ UNCHANGED <<global_est_enabled, toggled, streamvars, outside_main>>

InitMain ==
    /\ InitCalibrators(NoFile)
    /\ StreamsAtRest
    /\ WorkflowAtRest
    /\ WindowAtRest
    /\ BoardAtRest
    /\ NamesAtRest
    /\ StereoAtRest
    /\ TriangulatorAtRest
    /\ MainAtRest
    /\ CameraAtRest
    /\ PoseAtRest

NextMain ==
    \/ \E c \in TableIds :
          \/ \E checked \in BOOLEAN : toggle_camera(c, checked)
          \/ preview_close(c)
          \/ preview_calib_toggle(c)
          \/ preview_calib_frame_timer(c)
    \/ toggle_global_estimation
    \/ \E s \in 1..MaxStarts : stream_finishes(s)
    \/ deliver

SpecMain == InitMain /\ [][NextMain]_vars

(***************************************************************************)
(* CameraStream: run() on the stream's thread, step by step, and stop()    *)
(* and set_exposure() called from the GUI thread meanwhile.  The counters  *)
(* of reads and frames stop counting at MaxReads.                          *)
(***************************************************************************)
outside_camera ==
    <<calibratorvars, namevars, stereovars, trivars, boardvars, winvars, runvars,
      streamvars, mainvars, posevars>>

\* One more read or frame counted.
Counted(n) == IF n < MaxReads THEN n + 1 ELSE n

\* Mutant: the loop does not look at the interruption request.
LoopEntered_always(interruption) == TRUE

\* while not self.isInterruptionRequested()
LoopEntered(interruption) == ~interruption

\* finally: cap.release()
Released(device) == "released"

\* QThread.start(): the thread is running from here on.
thread_start ==
    /\ cam.pc = "created"
    /\ cam' = [cam EXCEPT !.pc = "started"]
    /\ UNCHANGED outside_camera

\* cap = cv2.VideoCapture(self._device_id, cv2.CAP_ANY); self._cap = cap
run_open ==
    /\ cam.pc = "started"
    /\ \E opened \in BOOLEAN :
         cam' = [cam EXCEPT !.pc = "try", !.cap = TRUE,
                            !.device = IF opened THEN "open" ELSE "unopened"]
    /\ UNCHANGED outside_camera

\* try: if not cap.isOpened(): self.error.emit(...); return.  Otherwise the
\* resolution, the frame rate and a pending exposure are set on the device.
run_try ==
    /\ cam.pc = "try"
    /\ cam' = IF cam.device # "open"
              THEN [cam EXCEPT !.pc = "release", !.errors = @ + 1,
                               !.exit = "not opened"]
              ELSE [cam EXCEPT !.pc = "loop",
                               !.exposure = @ \/ cam.pending_exposure]
    /\ UNCHANGED outside_camera

\* The loop's condition, and the wait for the next frame's time.
run_loop ==
    /\ cam.pc = "loop"
    /\ cam' = IF LoopEntered(cam.interruption)
              THEN [cam EXCEPT !.pc = "read"]
              ELSE [cam EXCEPT !.pc = "release", !.exit = "interrupted"]
    /\ UNCHANGED outside_camera

\* ret, frame = cap.read(); if not ret: break.  Otherwise the frame is
\* processed, which cv2 may refuse with an exception.
run_read ==
    /\ cam.pc = "read"
    /\ \/ cam' = [cam EXCEPT !.pc = "release", !.reads = Counted(@),
                             !.exit = "read failed"]
       \/ cam' = [cam EXCEPT !.pc = "release", !.reads = Counted(@),
                             !.exit = "exception"]
       \/ cam' = [cam EXCEPT !.pc = "emit", !.reads = Counted(@)]
    /\ UNCHANGED outside_camera

\* self.frame_ready.emit(frame); self.q_image_ready.emit(qimg)
run_emit ==
    /\ cam.pc = "emit"
    /\ cam' = [cam EXCEPT !.pc = "loop", !.emitted = Counted(@),
                          !.late = IF cam.interruption THEN Counted(@) ELSE @]
    /\ UNCHANGED outside_camera

\* finally: cap.release()
run_release ==
    /\ cam.pc = "release"
    /\ cam' = [cam EXCEPT !.pc = "unset", !.device = Released(@)]
    /\ UNCHANGED outside_camera

\* finally: self._cap = None; run() returns and the thread finishes.
run_unset ==
    /\ cam.pc = "unset"
    /\ cam' = [cam EXCEPT !.pc = "done", !.cap = FALSE]
    /\ UNCHANGED outside_camera

\* stop(): self.requestInterruption(), which does nothing on a thread that
\* is not running.
stream_stop ==
    /\ cam.pc \notin {"created", "done"}
    /\ ~cam.interruption
    /\ cam' = [cam EXCEPT !.interruption = TRUE]
    /\ UNCHANGED outside_camera

\* set_exposure(value), from the GUI thread: the value is kept for run(),
\* and set on the device if self._cap is not None.
set_exposure ==
    /\ ~cam.pending_exposure
    /\ cam' = [cam EXCEPT !.pending_exposure = TRUE,
                          !.exposure = @ \/ (cam.cap /\ cam.device = "open")]
    /\ UNCHANGED outside_camera

\* The steps of the stream's thread.
thread_runs ==
    \/ run_open
    \/ run_try
    \/ run_loop
    \/ run_read
    \/ run_emit
    \/ run_release
    \/ run_unset

InitCamera ==
    /\ InitCalibrators(NoFile)
    /\ StreamsAtRest
    /\ WorkflowAtRest
    /\ WindowAtRest
    /\ BoardAtRest
    /\ NamesAtRest
    /\ StereoAtRest
    /\ TriangulatorAtRest
    /\ MainAtRest
    /\ CameraAtRest
    /\ PoseAtRest

NextCamera ==
    \/ thread_start
    \/ run_open
    \/ run_try
    \/ run_loop
    \/ run_read
    \/ run_emit
    \/ run_release
    \/ run_unset
    \/ stream_stop
    \/ set_exposure

SpecCamera == InitCamera /\ [][NextCamera]_vars

\* The stream's thread is scheduled, and cap.read() returns.
FairSpecCamera == SpecCamera /\ WF_vars(thread_runs)

(***************************************************************************)
(* CameraPreviewWindow and its PoseEstimationWorker: the handlers on the   *)
(* GUI thread and process_frame on the worker's thread.  inference_input   *)
(* and result_ready cross threads, so each emit posts a call to the        *)
(* receiver's thread.  A result already posted when result_ready is        *)
(* disconnected is still delivered, before the next click is handled.      *)
(***************************************************************************)
outside_pose ==
    <<calibratorvars, namevars, stereovars, trivars, boardvars, winvars, runvars,
      streamvars, mainvars, camvars>>

\* Mutant: a frame is submitted whether or not an answer is awaited.
Submits_whenever(p) == p.enabled /\ p.worker

\* if self._pose_estimation_enabled and self._pose_worker is not None
\*    and not self._inference_busy
Submits(p) == p.enabled /\ p.worker /\ ~p.busy

\* Frames submitted to the preview's worker and not answered by a result
\* that _on_pose_result has received.
Outstanding(p) ==
    Len(p.inbox) + (IF p.processing # 0 THEN 1 ELSE 0) + Len(p.results)

\* _on_frame_ready(device_id, frame) for the preview's own camera.
pose_frame_ready ==
    /\ pose.frames < MaxPoseFrames
    /\ LET frame == pose.frames + 1 IN
       pose' = IF Submits(pose)
               THEN [pose EXCEPT !.frames = frame, !.busy = TRUE,
                                 !.inbox = Append(@, frame)]
               ELSE [pose EXCEPT !.frames = frame]
    /\ UNCHANGED outside_pose

\* PoseEstimationWorker.process_frame(frame) is called on the worker's
\* thread with the oldest frame posted to it.
process_frame_call ==
    /\ pose.inbox # <<>>
    /\ pose.processing = 0
    /\ pose' = [pose EXCEPT !.inbox = Tail(@), !.processing = Head(pose.inbox)]
    /\ UNCHANGED outside_pose

\* process_frame: estimate returns and result_ready is emitted, or estimate
\* raises.
process_frame_return ==
    /\ pose.processing # 0
    /\ \/ pose' = [pose EXCEPT !.processing = 0,
                               !.results = Append(@, pose.processing)]
       \/ pose' = [pose EXCEPT !.processing = 0]
    /\ UNCHANGED outside_pose

\* _on_pose_result(landmarks)
OnPoseResult(p, landmarks) == [p EXCEPT !.landmarks = landmarks, !.busy = FALSE]

\* A result of the preview's worker reaches _on_pose_result.
on_pose_result ==
    /\ pose.results # <<>>
    /\ pose' = OnPoseResult([pose EXCEPT !.results = Tail(@)],
                            Head(pose.results))
    /\ UNCHANGED outside_pose

\* A result posted before the disconnect reaches _on_pose_result.
on_stale_result ==
    /\ pose.stale # <<>>
    /\ pose' = OnPoseResult([pose EXCEPT !.stale = Tail(@)], Head(pose.stale))
    /\ UNCHANGED outside_pose

\* set_pose_estimation_enabled(True) when it was off: a new worker on a new
\* thread, connected.
pose_enable ==
    /\ ~pose.enabled
    /\ pose.stale = <<>>
    /\ pose' = [pose EXCEPT !.enabled = TRUE, !.worker = TRUE]
    /\ UNCHANGED outside_pose

\* set_pose_estimation_enabled(False) when it was on: the signals are
\* disconnected, the thread quits (a frame it has not begun is never
\* processed, the result of one it is processing goes nowhere), worker and
\* thread are dropped, landmarks and busy flag reset.
pose_disable ==
    /\ pose.enabled
    /\ pose' = IF pose.worker
               THEN [pose EXCEPT !.enabled = FALSE, !.worker = FALSE,
                                 !.landmarks = 0, !.busy = FALSE,
                                 !.inbox = <<>>, !.processing = 0,
                                 !.results = <<>>,
                                 !.stale = @ \o pose.results]
               ELSE [pose EXCEPT !.enabled = FALSE]
    /\ UNCHANGED outside_pose

InitPose ==
    /\ InitCalibrators(NoFile)
    /\ StreamsAtRest
    /\ WorkflowAtRest
    /\ WindowAtRest
    /\ BoardAtRest
    /\ NamesAtRest
    /\ StereoAtRest
    /\ TriangulatorAtRest
    /\ MainAtRest
    /\ CameraAtRest
    /\ PoseAtRest

NextPose ==
    \/ pose_frame_ready
    \/ process_frame_call
    \/ process_frame_return
    \/ on_pose_result
    \/ on_stale_result
    \/ pose_enable
    \/ pose_disable

SpecPose == InitPose /\ [][NextPose]_vars

(***************************************************************************)
(* Properties                                                              *)
(***************************************************************************)

\* The step completes a call of op by calibrator c.
Completes(c, op) ==
    /\ returned' # returned
    /\ returned'.cal = c
    /\ returned'.op = op

\* Everything of instance c that calibrate, save or load could touch.
InstanceUnchanged(c) ==
    /\ object_points'[c] = object_points[c]
    /\ image_points'[c] = image_points[c]
    /\ camera_matrix'[c] = camera_matrix[c]
    /\ dist_coeffs'[c] = dist_coeffs[c]
    /\ reproj_error'[c] = reproj_error[c]

\* C1: calibrate called with fewer than 3 accumulated observations fails with
\* the insufficient-data error and leaves camera_matrix, dist_coeffs,
\* reprojection_error and both observation lists as they were.
C1_CalibrateNeedsThree ==
    [][\A c \in Calibrators :
         (Completes(c, "calibrate") /\ Len(object_points[c]) < 3)
         => (returned'.err = InsufficientData /\ InstanceUnchanged(c))]_vars

\* C1 witness: calibrate has just failed on an instance that holds two
\* observations and parameters (loaded before), which it kept.
C1_Witness ==
    /\ returned.op = "calibrate"
    /\ returned.err = InsufficientData
    /\ Len(object_points[returned.cal]) = 2
    /\ camera_matrix[returned.cal] # None

\* C2: add_chessboard_image returns true exactly for a frame with a detected
\* board and then appends exactly one entry to object_points and one to
\* image_points; otherwise it returns false and changes nothing; the two
\* lists have the same length in every reachable state.
C2_AddAppendsOnePair ==
    /\ [](\A c \in Calibrators : Len(object_points[c]) = Len(image_points[c]))
    /\ [][\A c \in Calibrators :
            Completes(c, "add_chessboard_image") =>
              LET det == FindChessboardCorners(returned'.arg[1]) IN
              IF det.found
              THEN /\ returned'.val = RetTrue
                   /\ Len(object_points'[c]) = Len(object_points[c]) + 1
                   /\ Len(image_points'[c]) = Len(image_points[c]) + 1
                   /\ SubSeq(object_points'[c], 1, Len(object_points[c]))
                        = object_points[c]
                   /\ SubSeq(image_points'[c], 1, Len(image_points[c]))
                        = image_points[c]
                   /\ image_points'[c][Len(image_points'[c])] = det.corners
              ELSE /\ returned'.val = RetFalse
                   /\ InstanceUnchanged(c)
                   /\ fs' = fs]_vars

\* C2 witness: a second observation has just been stored.
C2_Witness ==
    /\ returned.op = "add_chessboard_image"
    /\ returned.val = RetTrue
    /\ Len(object_points[returned.cal]) = 2
    /\ Len(image_points[returned.cal]) = 2

\* The state of the spec's state machine an instance is in.
State(cm, imgs) ==
    IF cm # None THEN "Calibrated"
    ELSE IF Len(imgs) > 0 THEN "Accumulating" ELSE "Empty"

Rank(st) == CASE st = "Empty" -> 0 [] st = "Accumulating" -> 1 [] OTHER -> 2

\* C3, as claimed: an instance only moves forward through Empty ->
\* Accumulating -> Calibrated and never goes from Empty straight to Calibrated.
C3_ForwardNeverFromEmpty ==
    [][\A c \in Calibrators :
         LET old == State(camera_matrix[c], image_points[c])
             new == State(camera_matrix'[c], image_points'[c]) IN
         /\ Rank(new) >= Rank(old)
         /\ ~(old = "Empty" /\ new = "Calibrated")]_vars

\* C3, amended: an instance never returns to an earlier state; it goes from
\* Empty straight to Calibrated only by a load, and calibrate makes it
\* Calibrated only with at least 3 accumulated observations.
C3_ForwardOnly ==
    [][\A c \in Calibrators :
         LET old == State(camera_matrix[c], image_points[c])
             new == State(camera_matrix'[c], image_points'[c]) IN
         /\ Rank(new) >= Rank(old)
         /\ (old = "Empty" /\ new = "Calibrated") => pc[c] = "load_read"
         /\ (old # "Calibrated" /\ new = "Calibrated" /\ pc[c] # "load_read")
              => (Completes(c, "calibrate") /\ Len(image_points[c]) >= 3)]_vars

\* C3 witness: an instance that a load has calibrated without any observation.
C3_Witness ==
    /\ returned.op = "load"
    /\ returned.err = NoErr
    /\ camera_matrix[returned.cal] # None
    /\ image_points[returned.cal] = <<>>

\* The positions of save and load between acquiring and releasing the lock.
SaveLocked == {"save_savez", "save_savez_write", "save_replace", "save_finally",
               "save_release"}
LoadLocked == {"load_read", "load_release"}

\* The positions inside a save call.
SaveRunning == SaveLocked \cup {"save_lock"}

\* C4: a save works in the order lock, write the complete content to the
\* temporary sibling, rename the temporary file over the destination,
\* release: when it reaches the rename it holds the lock and the temporary
\* path it renames holds the complete content; the destination never holds a
\* half-written file, and a save that has ended holds no lock.
C4_SaveOrder ==
    /\ \A c \in Calibrators :
         pc[c] = "save_replace" =>
           /\ <<SaveLockPath(FileName), c>> \in held
           /\ Exists(fs, TmpPath(FileName))
           /\ fs[TmpPath(FileName)] = SavedContent(c)
    /\ NpLoad(fs, FileName).kind # "partial"
    /\ \A c \in Calibrators : pc[c] = "idle" => \A h \in held : h[2] # c

\* C5: no reader of the intrinsics artifact, with or without the lock, ever
\* gets a partially written artifact while saves run: it finds a complete
\* artifact or none.
C5_NoPartialRead ==
    /\ seen.kind \in {"notread", "FileNotFoundError", "npz"}
    /\ \A c \in Calibrators : exc[c] # "BadZipFile"
    /\ NpLoad(fs, FileName).kind \in {"FileNotFoundError", "npz"}

\* C5 witness: the main window has read a complete artifact while a save has
\* its archive half written.
C5_Witness ==
    /\ seen.kind = "npz"
    /\ \E c \in Calibrators : pc[c] = "save_savez_write"
    /\ \E p \in DOMAIN fs : fs[p].kind = "partial"

\* C6: save and load of one artifact path lock the same file: no two
\* operations (save/save, save/load, load/load) are between acquiring and
\* releasing the lock at the same time, and load reads the artifact only
\* while it holds the lock.
C6_LockExclusion ==
    /\ \A c, d \in Calibrators :
         (c # d /\ pc[c] \in SaveLocked \cup LoadLocked)
           => pc[d] \notin SaveLocked \cup LoadLocked
    /\ \A c \in Calibrators :
         pc[c] = "load_read" => <<LoadLockPath(FileName), c>> \in held
    /\ Cardinality(held) <= 1

\* C6 witness: a save waits for the lock while a load reads under it.
C6_Witness ==
    \E c, d \in Calibrators :
      /\ pc[c] = "load_read"
      /\ pc[d] = "save_lock"
      /\ <<LoadLockPath(FileName), c>> \in held

\* C7: a save that ends while another save of the same path is running, the
\* disk taking every write, ends successfully or with the lock-timeout error
\* (so the one that got the lock succeeds), and the destination then holds
\* the complete content of a successful save.
C7_ConcurrentSaves ==
    [][\A c, d \in Calibrators :
         (c # d /\ pc[c] \in SaveRunning /\ pc'[c] = "idle"
            /\ pc[d] \in SaveRunning /\ exc[c] # "OSError")
         => /\ returned'.err \in {NoErr, SaveLockTimeout}
            /\ returned'.err = NoErr => NpLoad(fs', FileName) = SavedContent(c)
            /\ NpLoad(fs', FileName).kind # "partial"]_vars

\* C8: when a save fails (lock timeout, error while writing, error in the
\* rename), a valid artifact that was at the destination when the call began
\* is still there, unchanged.
C8_FailedSaveKeepsArtifact ==
    [][\A c \in Calibrators :
         (pc[c] \in SaveRunning /\ pc'[c] = "idle" /\ returned'.err # NoErr
            /\ before[c].kind = "npz")
         => NpLoad(fs', FileName) = before[c]]_vars

\* C8 witness: a save has failed while writing its archive and the stored
\* artifact is still at the destination.
C8_Witness ==
    /\ returned.op = "save"
    /\ returned.exc = "OSError"
    /\ pc[returned.cal] = "idle"
    /\ NpLoad(fs, FileName) = StoredArtifact
    /\ \E p \in DOMAIN fs : fs[p].kind = "partial"

\* C9: once no save is running, no temporary file of a save is left on disk:
\* neither the temporary sibling nor the file np.savez actually wrote.
C9_NoTempLeft ==
    (\A c \in Calibrators : pc[c] \notin SaveRunning)
    => /\ ~Exists(fs, TmpPath(FileName))
       /\ ~Exists(fs, SavezTarget(TmpPath(FileName)))

\* Type and message of an error, without the text of the wrapped exception.
ErrorKind(err) == <<err[1], err[2]>>

\* C10: a save or load that cannot get the lock within the timeout ends with
\* its lock-timeout error, no failure of another kind of the same operation
\* surfaces as that error, and the timed-out call has written nothing to disk
\* and left the calibrator's parameters unchanged.
C10_LockTimeout ==
    /\ [](returned.op \in {"save", "load"} /\ returned.err # NoErr
          => LET lt == IF returned.op = "save" THEN SaveLockTimeout
                       ELSE LoadLockTimeout IN
             (returned.exc = "Timeout") <=> (ErrorKind(returned.err) = ErrorKind(lt)))
    /\ [][\A c \in Calibrators :
            (pc[c] \in {"save_lock", "load_lock"} /\ pc'[c] = "idle")
            => /\ returned'.cal = c
               /\ returned'.op = (IF pc[c] = "save_lock" THEN "save" ELSE "load")
               /\ returned'.exc = "Timeout"
               /\ returned'.err # NoErr
               /\ fs' = fs
               /\ InstanceUnchanged(c)]_vars

\* C10 witness: a load has timed out on an instance that holds parameters.
C10_Witness ==
    /\ returned.op = "load"
    /\ returned.exc = "Timeout"
    /\ returned.err = LoadLockTimeout
    /\ camera_matrix[returned.cal] # None

\* What a fresh CameraCalibrator holds after load() of the archive data:
\* <<camera_matrix, dist_coeffs, reproj_error, exception>>.
LoadedFresh(data) == LoadBody(data, None, None, None)

\* C11: round trip: a save of a calibrated instance that neither times out on
\* the lock nor meets a disk error succeeds and leaves an artifact at the
\* path, and a load of that artifact into a fresh instance gives the
\* camera_matrix, dist_coeffs and reprojection_error of the saving instance.
C11_RoundTrip ==
    [][\A c \in Calibrators :
         (pc[c] = "save_release" /\ pc'[c] = "idle" /\ exc[c] # "OSError")
         => /\ returned'.err = NoErr
            /\ Exists(fs', FileName)
            /\ LoadedFresh(NpLoad(fs', FileName))
                 = <<camera_matrix[c], dist_coeffs[c], reproj_error[c], "">>]_vars

\* C15: an artifact with camera_matrix and dist_coeffs but without
\* reproj_error loads without error and leaves reprojection_error None; and
\* every archive a save has written completely, also one written by an
\* instance whose reprojection_error is None, loads into a fresh instance
\* without error and with the reprojection_error of its writer.
C15_OptionalReprojError ==
    /\ \A p \in DOMAIN fs :
         (fs[p].kind = "npz" /\ fs[p].reproj_error = Absent)
         => (LoadedFresh(fs[p])[4] = "" /\ LoadedFresh(fs[p])[3] = None)
    /\ \A c \in Calibrators :
         (pc[c] = "save_replace" /\ reproj_error[c] = None)
         => LET data == NpLoad(fs, SavezTarget(TmpPath(FileName))) IN
            /\ LoadedFresh(data)[4] = ""
            /\ LoadedFresh(data)[3] = None

\* C13: pair-naming symmetry: the stereo artifact path computed for the
\* camera ids (a, b) is the path computed for (b, a).
C13_PairNamingSymmetry ==
    named.fn = "stereo" => named.path = stereo_file_path(named.b, named.a)

\* C13 witness: a path was computed for two ids whose sanitized forms differ
\* and arrive in descending order, so the function had to swap them.
C13_Witness ==
    /\ named.fn = "stereo"
    /\ StrLess(ReSub(named.b), ReSub(named.a))
    /\ named.path = stereo_file_path(named.b, named.a)

\* The characters of Chars the spec allows in a sanitized id.
AllowedChars == {"a", "Z", "5", ".", "_", "-"}

\* C14: the sanitized id has the length of the id, keeps every allowed
\* character in place, has '_' wherever the id has another character,
\* consists of allowed characters only, and sanitizing it again changes
\* nothing; the calibration artifact path is built from it.
C14_Sanitization ==
    named.fn = "calib" =>
        LET id == named.a
            s  == named.safe
        IN  /\ Len(s) = Len(id)
            /\ \A i \in 1..Len(id) :
                 /\ id[i] \in AllowedChars => s[i] = id[i]
                 /\ id[i] \notin AllowedChars => s[i] = "_"
                 /\ s[i] \in AllowedChars
            /\ ReSub(s) = s
            /\ named.path = DataDir \o <<"calib_">> \o s \o <<".npz">>

\* C14 witness: an id with an allowed and a disallowed character was
\* sanitized.
C14_Witness ==
    /\ named.fn = "calib"
    /\ \E i, j \in 1..Len(named.a) :
         /\ named.a[i] \in AllowedChars
         /\ named.a[j] \notin AllowedChars
         /\ named.safe[j] = "_"

\* C12: the stereo artifact is guarded like the intrinsics artifact: no
\* StereoParams.load, and no reload by the main window, reads a stereo
\* artifact that a save has only partially written.
C12_StereoNoPartialRead ==
    sret.op \in {"load", "reload"} => sret.read.kind # "partial"

\* C19: stereo_calibrate returns StereoParams only for two frame lists of
\* the same length of at least one; for any other input it ends with an
\* error, before cv2.stereoCalibrate is called.
C19_StereoCalibrateGuards ==
    sret.op \in {"stereo_calibrate", "stereo_calibrate_and_save"} =>
        LET n1 == Len(sret.img_points1)
            n2 == Len(sret.img_points2)
        IN  /\ sret.val # NoParams => (n1 = n2 /\ n1 >= 1)
            /\ ~(n1 = n2 /\ n1 >= 1) =>
                  /\ sret.exc # ""
                  /\ sret.val = NoParams
                  /\ ~sret.solved

\* C19 witness: one call returned StereoParams for MaxFrames pairs of frames.
C19_Witness ==
    /\ sret.op = "stereo_calibrate"
    /\ sret.val # NoParams
    /\ sret.exc = ""
    /\ Len(sret.img_points1) = MaxFrames
    /\ Len(sret.img_points2) = MaxFrames

\* C20: a step of stereo_calibrate changes no file and none of the caller's
\* arrays k1, d1, k2, d2; the stereo artifact changes only in a step inside
\* StereoParams.save; and stereo_calibrate_and_save enters the save only with
\* the parameters of its own successful solve, ending without a save, and
\* without parameters, when the solve failed.
C20_NoPersistenceSideEffect ==
    [][/\ arrays' = arrays
       /\ (sret' # sret /\ sret'.op = "stereo_calibrate")
            => (stereo_fs' = stereo_fs /\ spc' = spc)
       /\ stereo_fs' # stereo_fs
            => \E p \in Procs : spc[p] \in {"save_open", "save_write"}
       /\ (sret' # sret /\ sret'.op = "stereo_calibrate_and_save")
            => /\ stereo_fs' = stereo_fs
               /\ IF sret'.exc = ""
                  THEN /\ sret'.solved
                       /\ spc'[sret'.proc] = "save_open"
                       /\ stereo_params'[sret'.proc] = sret'.val
                       /\ sret'.val # NoParams
                  ELSE /\ spc'[sret'.proc] = "idle"
                       /\ stereo_params' = stereo_params]_vars

\* C20 witness: a solve was followed by a save: the artifact holds the
\* parameters the caller got, and the caller's arrays are as they were.
C20_Witness ==
    \E p \in Procs :
       /\ sret.op = "save"
       /\ sret.proc = p
       /\ stereo_params[p] # NoParams
       /\ StereoRead(stereo_fs, StereoFile) = StereoArtifact(stereo_params[p])
       /\ arrays = CallerArrays

\* The depth of the point X in camera 1, whose frame X is given in, and in
\* camera 2, the third coordinate of R X + T.
DepthCam1(X) == X[3]
DepthCam2(params, X) == FAdd(Dot(params.r[3], X), params.t[3])
StrictlyPositive(depth) == depth # NaN /\ depth > 0

\* C16: cheirality: the flag of a triangulated point is true exactly when its
\* depth in camera 1 and its depth in camera 2 are both strictly positive; a
\* zero or negative depth in either camera gives false.
C16_Cheirality ==
    (tri_ret.op = "triangulate" /\ tri_ret.exc = "") =>
        \A i \in 1..Len(tri_ret.x) :
           tri_ret.mask[i] =
              (/\ StrictlyPositive(DepthCam1(tri_ret.x[i]))
               /\ StrictlyPositive(DepthCam2(stereo_params[Owner],
                                             tri_ret.x[i])))

\* C16 witness: one call returned a point in front of both cameras, flagged
\* valid, and a point in front of camera 1 lying on the plane of camera 2
\* (depth zero there), flagged invalid.
C16_Witness ==
    /\ tri_ret.op = "triangulate"
    /\ tri_ret.exc = ""
    /\ \E i, j \in 1..Len(tri_ret.x) :
         /\ tri_ret.mask[i]
         /\ DepthCam1(tri_ret.x[i]) > 0
         /\ ~tri_ret.mask[j]
         /\ StrictlyPositive(DepthCam1(tri_ret.x[j]))
         /\ DepthCam2(stereo_params[Owner], tri_ret.x[j]) = 0

\* C17: triangulate refuses two arrays of different shape, and for N
\* accepted pairs returns N positions and N flags, the i-th of each
\* belonging to the i-th pair.
C17_ShapesAndOrder ==
    tri_ret.op = "triangulate" =>
        LET pts1 == tri_ret.pts1_px
            pts2 == tri_ret.pts2_px
        IN  /\ Len(pts1) # Len(pts2) =>
                 (tri_ret.exc # "" /\ tri_ret.x = <<>> /\ tri_ret.mask = <<>>)
            /\ tri_ret.exc = "" =>
                 /\ Len(tri_ret.x) = Len(pts1)
                 /\ Len(tri_ret.mask) = Len(pts1)
                 /\ \A i \in 1..Len(pts1) :
                      /\ tri_ret.x[i] =
                           Dehomogenize(TriangulatePoint(
                               UndistortPoint(pts1[i]), UndistortPoint(pts2[i])))
                      /\ tri_ret.mask[i] =
                           Cheirality(tri_ret.x[i], stereo_params[Owner].r,
                                      stereo_params[Owner].t)

\* C17 witness: MaxPts pairs with different positions were triangulated.
C17_Witness ==
    /\ tri_ret.op = "triangulate"
    /\ tri_ret.exc = ""
    /\ Len(tri_ret.x) = MaxPts
    /\ tri_ret.x[1] # tri_ret.x[MaxPts]

\* C18: constructing a triangulator, triangulate, reprojection_rmse and
\* StereoParams.save leave the StereoParams instance as it was constructed,
\* and the triangulator's P2 is [R | T] of the (R, T) of that instance, which
\* the cheirality check uses.
C18_ParamsImmutable ==
    /\ [](triangulator # NoTriangulator =>
            /\ triangulator.p2[1] = stereo_params[triangulator.params].r
            /\ triangulator.p2[2] = stereo_params[triangulator.params].t)
    /\ [][stereo_params' = stereo_params]_vars

\* C18 witness: on one instance a triangulator was built, triangulate and
\* reprojection_rmse were called and the instance was saved.
C18_Witness ==
    /\ triangulator # NoTriangulator
    /\ tri_ret.op = "reprojection_rmse"
    /\ sret.op = "save"
    /\ StereoRead(stereo_fs, StereoFile) = StereoArtifact(stereo_params[Owner])

\* C21: both object-point generators return cols * rows points with Z = 0,
\* point k at X = (k mod cols) * square_size and Y = (k div cols) *
\* square_size; a generator returns the same points on every call, and the
\* two generators agree for equal board geometry.
C21_ObjectPoints ==
    LET cols == objp.board_size[1]
        rows == objp.board_size[2]
        size == objp.square_size
        want == [k \in 1..(cols * rows) |->
                    <<((k - 1) % cols) * size, ((k - 1) \div cols) * size, 0>>]
    IN  /\ objp.created # None =>
            /\ objp.created = want
            /\ Len(objp.created) = cols * rows
            /\ \A k \in 1..Len(objp.created) : objp.created[k][3] = 0
            /\ objp.created =
                   CreateObjectPoints(objp.board_size, objp.square_size)
        /\ objp.made # None =>
            /\ objp.made = want
            /\ Len(objp.made) = cols * rows
            /\ \A k \in 1..Len(objp.made) : objp.made[k][3] = 0
            /\ objp.made = make_object_points(objp.board_size, objp.square_size)
        /\ (objp.created # None /\ objp.made # None) =>
               objp.created = objp.made

\* Both generators have produced the points of a board that is not square,
\* with more than one row and more than one column.
C21_Witness ==
    /\ objp.created # None
    /\ objp.made # None
    /\ objp.board_size[1] > 1
    /\ objp.board_size[2] > objp.board_size[1]
    /\ objp.square_size > 1

\* C25: save on an instance without a camera matrix fails with the
\* not-calibrated error and writes nothing: it never gets as far as the
\* lock, and the step in which it fails changes no file (no artifact and no
\* temporary file appears, an existing artifact stays as it is), takes no
\* lock and leaves the instance unchanged.
C25_SaveUncalibrated ==
    /\ [](\A c \in Calibrators :
            pc[c] \in SaveRunning => camera_matrix[c] # None)
    /\ [][\A c \in Calibrators :
            (camera_matrix[c] = None /\ pc'[c] # pc[c]) => pc'[c] \notin SaveRunning]_vars
    /\ [][\A c \in Calibrators :
            (Completes(c, "save") /\ camera_matrix[c] = None)
            => /\ returned'.err = NotCalibrated
               /\ returned'.exc = "ValueError"
               /\ pc'[c] = "idle"
               /\ fs' = fs
               /\ held' = held
               /\ InstanceUnchanged(c)]_vars

\* C25 witness: an instance without a camera matrix has been refused by
\* save while an artifact is at the destination, and the disk holds nothing
\* but that artifact.
C25_Witness ==
    /\ returned.op = "save"
    /\ returned.err = NotCalibrated
    /\ camera_matrix[returned.cal] = None
    /\ DOMAIN fs = {FileName}
    /\ fs[FileName] = StoredArtifact

\* The list new is the list old with entries appended: nothing removed,
\* reordered or altered.
AppendedTo(old, new) ==
    /\ Len(old) <= Len(new)
    /\ SubSeq(new, 1, Len(old)) = old

\* C22: the observation lists of the window's calibrator are append-only:
\* every step (add_chessboard_image, calibrate, save, load, as the window's
\* handlers call them) leaves each stored observation in place and unchanged,
\* except a step that replaces the calibrator by a new instance, which is
\* the start of a calibration run or the construction of the window and
\* leaves both lists empty.
C22_AppendOnly ==
    [][\/ /\ AppendedTo(object_points[Cal], object_points'[Cal])
          /\ AppendedTo(image_points[Cal], image_points'[Cal])
       \/ /\ \/ ~win.calibrating /\ win'.calibrating
             \/ ~win.open /\ win'.open
          /\ object_points'[Cal] = <<>>
          /\ image_points'[Cal] = <<>>]_vars

\* C22 witness: a run has collected all its observations, calibrate and save
\* have worked on them, and they are all still there.
C22_Witness ==
    /\ Len(image_points[Cal]) = ImagesRequired
    /\ Len(object_points[Cal]) = ImagesRequired
    /\ camera_matrix[Cal] = CalibrateCamera(object_points[Cal], image_points[Cal]).mtx
    /\ ~win.calibrating

\* C24: the calibration button is enabled exactly when pose estimation is
\* disabled, whatever calls of set_pose_estimation_enabled have been made.
C24_CalibButton ==
    win.calib_button_enabled <=> ~win.pose_estimation_enabled

\* C24 witness: pose estimation is on in an open window, so the button is
\* disabled.
C24_Witness ==
    /\ win.open
    /\ win.pose_estimation_enabled
    /\ ~win.calib_button_enabled

\* The step cancels a running calibration: by the button or by a close.
Cancels ==
    /\ win.calibrating
    /\ on_calib_toggle \/ close_request \/ force_close

\* C27: a cancel ends the run, and afterwards the window is marked
\* calibrated exactly when the saved artifact exists and loads, the
\* calibrator then holding the saved parameters; nothing accumulated in the
\* run counts: parameters are solved only by a running calibration with all
\* its observations, and the next run starts from an empty calibrator.
C27_CancelDiscards ==
    /\ [][Cancels =>
            LET data  == NpLoad(fs, FileName)
                loads == /\ Exists(fs, FileName)
                         /\ data.kind = "npz"
                         /\ data.camera_matrix # Absent
                         /\ data.dist_coeffs # Absent
                         /\ data.reproj_error # ObjNone
                         /\ win'.reload # "Timeout"
            IN  /\ ~win'.calibrating
                /\ win'.calibration_done <=> loads
                /\ loads =>
                     /\ camera_matrix'[Cal] = data.camera_matrix
                     /\ dist_coeffs'[Cal] = data.dist_coeffs
                     /\ reproj_error'[Cal] =
                          IF data.reproj_error = Absent THEN None
                          ELSE data.reproj_error]_vars
    /\ [][(~win.calibrating /\ win'.calibrating) =>
            /\ object_points'[Cal] = <<>>
            /\ image_points'[Cal] = <<>>
            /\ camera_matrix'[Cal] = None]_vars
    /\ [][(camera_matrix'[Cal] # camera_matrix[Cal]
           /\ camera_matrix'[Cal] # None
           /\ camera_matrix'[Cal][1] = "solved") =>
            /\ win.calibrating
            /\ Len(image_points'[Cal]) >= ImagesRequired]_vars

\* C27 witness: a run with observations has been cancelled and the saved
\* artifact reloaded.
C27_Witness ==
    /\ win.open
    /\ ~win.calibrating
    /\ Len(image_points[Cal]) \in 1..(ImagesRequired - 1)
    /\ win.reload = "ok"
    /\ win.calibration_done
    /\ camera_matrix[Cal] = StoredArtifact.camera_matrix

\* C30: a normal close request of a window with pose estimation enabled is
\* refused: the window stays open and registered, its stream keeps running,
\* pose estimation stays enabled and on_closed is not called; force_close
\* closes the window; and every close that is accepted stops the stream and
\* calls on_closed exactly once (on_closed is called by nothing else).
C30_CloseGuard ==
    /\ [](~win.force_close)
    /\ [][(close_request /\ win.pose_estimation_enabled) =>
            /\ win'.open
            /\ win'.event = "ignored"
            /\ win'.stream_running
            /\ win'.registered
            /\ win'.pose_estimation_enabled
            /\ win'.on_closed_calls = win.on_closed_calls]_vars
    /\ [][force_close => ~win'.open]_vars
    /\ [][(win.open /\ ~win'.open) =>
            /\ win'.event = "accepted"
            /\ ~win'.stream_running
            /\ ~win'.registered
            /\ ~win'.pose_estimation_enabled
            /\ win'.on_closed_calls = win.on_closed_calls + 1]_vars
    /\ [][(win.open /\ win'.open) =>
            /\ win'.stream_running = win.stream_running
            /\ win'.registered = win.registered
            /\ win'.on_closed_calls = win.on_closed_calls]_vars

\* C30 witness: a close request has been refused: the window is open with
\* pose estimation on and its stream running.
C30_Witness ==
    /\ win.event = "ignored"
    /\ win.open
    /\ win.pose_estimation_enabled
    /\ win.stream_running
    /\ win.registered

\* C26: a run of the stereo workflow in which a camera has no frame, or the
\* board is not detected in both frames, calls no stereo solve, stores no
\* solve result (the main window keeps its parameters, or holds what the
\* artifact on disk gives) and leaves the stereo artifact as it was, absent
\* or not; and a run is inside params.save only with the parameters a
\* successful stereo_calibrate returned for two frames with the board.
C26_StereoWorkflowGuards ==
    /\ [][\A p \in Procs :
            (spc[p] = "idle" /\ run'[p] # run[p])
            => /\ stereo_fs' = stereo_fs
               /\ (run'[p].img1 = "" \/ run'[p].img2 = "")
                  => /\ run'[p].ended = "no frame"
                     /\ ~run'[p].called
                     /\ spc'[p] = "idle"
                     /\ stereo_params'[p] = stereo_params[p]
               /\ (run'[p].img1 # "board" \/ run'[p].img2 # "board")
                  => /\ ~run'[p].called
                     /\ run'[p].params = NoParams
                     /\ spc'[p] = "idle"
                     /\ stereo_params'[p] \in
                          {stereo_params[p],
                           IF StereoFile \in DOMAIN stereo_fs
                           THEN stereo_fs[StereoFile].params ELSE NoParams}]_vars
    /\ [](\A p \in Procs :
            spc[p] \in {"run_save_open", "run_save_write"}
            => /\ run[p].called
               /\ run[p].img1 = "board"
               /\ run[p].img2 = "board"
               /\ \E s \in Solutions :
                     /\ run[p].params.r = s[1]
                     /\ run[p].params.t = s[2])
    /\ [][stereo_fs' # stereo_fs =>
            \E p \in Procs :
               /\ spc[p] \in {"run_save_open", "run_save_write"}
               /\ stereo_fs' \in
                    {WriteFile(stereo_fs, StereoFile, StereoPartial),
                     WriteFile(stereo_fs, StereoFile,
                               StereoArtifact(run[p].params))}]_vars

\* C26 witness: a run found the board in one frame only and ended with the
\* error, while an artifact of an earlier solve is on disk.
C26_Witness ==
    \E p \in Procs :
       /\ run[p].img1 = "board"
       /\ run[p].img2 = "noboard"
       /\ run[p].ended = "ValueError"
       /\ spc[p] = "idle"
       /\ StereoFile \in DOMAIN stereo_fs
       /\ stereo_fs[StereoFile].kind = "npz"

\* C23: CameraStreamManager never runs more than two camera streams at
\* once: start_camera for a further camera while two streams are running
\* leaves running_device_ids as it is (two entries) and gives a
\* 'Cannot start' warning.
C23_AtMostTwoStreams ==
    /\ [](Cardinality(Running) <= 2)
    /\ [][\A c \in CameraIds \ Running :
             (Cardinality(Running) = 2 /\ gui_start_camera(c))
                 => /\ {d \in CameraIds : streams'[d] # NoStream} = Running
                    /\ mret'.warning = "Cannot start"]_vars

\* C28: CameraStreamManager holds at most one stream per camera id, the
\* stream started for that id: start_camera for an id that is running, or
\* for an id the device lookup does not know, creates no stream and leaves
\* the running set as it is, whatever the interleaving of the start_camera
\* calls of several threads; a stream is created only for an id with no
\* stream, and is the one registered for it.
C28_OneStreamPerId ==
    /\ [](\A c \in CameraIds :
             streams[c] # NoStream =>
                 /\ streams[c] \in 1..Len(created)
                 /\ created[streams[c]].id = c)
    /\ [][\A t \in Callers :
             /\ (start_locked(t) /\ streams[starter[t].id] # NoStream)
                    => /\ UNCHANGED <<streams, created>>
                       /\ mret'.warning = "already running"
             /\ start_lookup(t, UnknownId)
                    => /\ UNCHANGED <<streams, created>>
                       /\ mret'.warning = "not found"]_vars
    /\ [][created' # created /\ Len(created') >= Len(created) =>
             \/ \E c \in CameraIds :
                   /\ streams[c] = NoStream
                   /\ created' = Append(created, NewStream(c))
                   /\ streams' = [streams EXCEPT ![c] = Len(created')]
             \/ /\ Len(created') = Len(created)
                /\ \A c \in CameraIds :
                      streams'[c] \in {streams[c], NoStream}]_vars

\* A thread found the id free at its lookup and running once it had the
\* lock, and its call was refused.
C28_Witness ==
    /\ mret.op = "start_camera"
    /\ mret.raced
    /\ mret.warning = "already running"
    /\ streams[mret.id] # NoStream
    /\ Len(created) = 1

C33_FailedLoadKeepsParameters ==
    [][\A c \in Calibrators :
          ((load_read(c) /\ exc'[c] # "") \/ load_timeout(c))
              => /\ camera_matrix'[c] = camera_matrix[c]
                 /\ dist_coeffs'[c] = dist_coeffs[c]
                 /\ reproj_error'[c] = reproj_error[c]]_vars

\* C34: artifact keys do not collide: no other camera id resolves to the
\* intrinsics artifact path of a camera id, and no other unordered pair of
\* camera ids resolves to the stereo artifact path of a pair.
C34_NoKeyCollision ==
    /\ named.fn = "calib" =>
          \A d \in Ids : d # named.a => calib_file_path(d) # named.path
    /\ named.fn = "stereo" =>
          \A c \in Ids, d \in Ids :
              {c, d} # {named.a, named.b}
                  => stereo_file_path(c, d) # named.path

\* C35: in every reachable state of a preview window, calibration_done
\* implies that the window's current calibrator holds a camera matrix and
\* distortion coefficients, also while a re-calibration run is in progress
\* and after a run whose calibrate or save step failed.
C35_DoneImpliesParameters ==
    (win.open /\ win.calibration_done)
        => (camera_matrix[Cal] # None /\ dist_coeffs[Cal] # None)

\* C37: the running set tracks live streams: an entry is removed only when
\* the stream stored in that entry has itself finished, so the late cleanup
\* for an old stream never removes a newer, still running stream of the
\* same id, and a second cleanup for one stream removes nothing more.
C37_CleanupOnlyFinished ==
    [][\A c \in CameraIds :
          (streams[c] # NoStream /\ streams'[c] = NoStream)
              => created'[streams[c]].state = "finished"]_vars

C32_ReleasedAndTerminates ==
    /\ [](cam.pc = "done" => (cam.device = "released" /\ ~cam.cap))
    /\ [](cam.late <= 1)
    /\ (cam.interruption ~> cam.pc = "done")

\* C32 witness: stop() was called during the capture of a frame, the frame
\* was still emitted, and run() has returned through the loop's condition
\* with the device released.
C32_Witness ==
    /\ cam.pc = "done"
    /\ cam.exit = "interrupted"
    /\ cam.late = 1
    /\ cam.emitted >= 2
    /\ cam.device = "released"

====
